---- MODULE Spec2Model ----
(***************************************************************************)
(* A model of git-spice's `branch merge` command: the stale-base           *)
(* validator (spice.ValidateDownstack), the merge handler                  *)
(* (merge.Handler.MergeDownstack: buildPlan, confirm, executePlan,         *)
(* awaitMerged, retargetChange) and the forge they talk to.                *)
(***************************************************************************)
EXTENDS Integers, Sequences, FiniteSets, TLC

(***************************************************************************)
(* Bounds of the model.                                                    *)
(***************************************************************************)
\* Number of tracked branches in a repository (named 1..MaxBranches).
MaxBranches == 3
\* How many times somebody else closes or merges a change request
\* while the command runs.
MaxForeign == 1
\* How many times the user runs a continue command after a conflict.
MaxResumes == 2
\* Number of lines `git credential fill` prints, at most.
MaxLines == 2
\* Number of words in the body of an error response, at most.
MaxWords == 4

\* Number of commands run one after the other on a repository, at most.
MaxCommands == 2

\* The time a call of ChangesStates takes when it is answered quickly, and
\* the longest it takes, in milliseconds.
PollTime == 100
MaxPollTime == 119600

\* Number of pages the comments of a pull request come in, at most.
MaxPages == 2

\* Number of comments on a page, at most.
MaxPageSize == 2

(***************************************************************************)
(* Program constants.                                                      *)
(***************************************************************************)
\* handler.go:232-234, in milliseconds.
InitialDelay == 500
MaxDelay == 8000
Timeout == 120000

\* The trunk branch (Store.Trunk / BranchGraph.Trunk); branches are 1..N.
Trunk == 0
\* A branch record without a published change (resp.Change == nil).
NoChange == 0
\* The zero value of executePlan's `var trunk string`.
NoTrunk == -1

ChangeStates == {"Open", "Closed", "Merged"}

\* bitbucket/auth.go:22-33, the AuthType values.
AuthTypeAppPassword == 0
AuthTypeGCM == 1
AuthTypeEnvironmentVariable == 100

\* bitbucket/submit.go:91, the status of a destination-branch error.
StatusBadRequest == 400

VARIABLES
    base,           \* store: branch -> its base (a branch or Trunk)
    change,         \* store: branch -> its change ID, or NoChange
    forge,          \* forge: change ID -> Open / Closed / Merged
    pending,        \* forge: merged changes ChangesStates still reports Open
    forgeBase,      \* forge: change ID -> base branch of the change request
    foreign,        \* number of changes closed or merged by somebody else
    entry,          \* the function this run entered at
    target,         \* the branch the command is run for
    noWait,         \* --no-wait
    noBranchCheck,  \* --no-branch-check
    pc,             \* position of the command
    err,            \* "" while running or on success, else the error returned
    plan,           \* MergeDownstack: the merge plan, a sequence of mergeItems
    idx,            \* executePlan: index i of the item at hand (1-based)
    trunk,          \* executePlan: its local `trunk`
    delay,          \* awaitMerged: the current backoff delay
    elapsed,        \* awaitMerged: time since its timeout context was made
    waits,          \* awaitMerged: the delays armed so far, in order
    lastPoll,       \* awaitMerged: what the latest poll reported
    cancelled,      \* the caller's context was cancelled
    calls,          \* the forge calls made so far, in order (a poll that
                    \* repeats the previous one, answer included, is
                    \* entered once)
    graphBuilt,     \* svc.BranchGraph was called
    mergeInvoked,   \* MergeDownstack was called
    prompted,       \* the confirmation prompt was shown
    trunkReads,     \* Store.Trunk() calls made by executePlan
    verdict,        \* ValidateDownstack's result
    cmd,            \* the command struct: its name and parsed arguments
    current,        \* worktree: the branch checked out
    before,         \* the store's records when the command started
    head,           \* VCS: branch (or trunk) -> hash of its head commit
    baseHash,       \* store: branch -> head of its base at its last rebase
    rebasing,       \* VCS: the rebase in progress, or NoRebase
    remaining,      \* restack: the branches still to visit, in order
    continuation,   \* store: the continuation record, or NoContinuation
    count,          \* restack: the branches rebased by this invocation
    events,         \* VCS operations, store commits and log lines, in order
    stash,          \* autostash: what became of the uncommitted changes
    pr,             \* forge: the change request `ci merge-guard` looks at
    batchBranches,  \* submit.BatchRequest.Branches
    pushed,         \* forge: the branches the remote has
    session         \* the commands run on this repository, this one included

vars == <<base, change, forge, pending, forgeBase, foreign, entry, target,
          noWait, noBranchCheck, pc, err, plan, idx, trunk, delay, elapsed,
          waits, lastPoll, cancelled, calls, graphBuilt, mergeInvoked,
          prompted, trunkReads, verdict, cmd, current, before, head,
          baseHash, rebasing, remaining, continuation, count, events, stash,
          pr, batchBranches, pushed, session>>

\* What the commands other than `branch merge` work on.
vcsVars == <<head, baseHash, rebasing>>
restackVars == <<remaining, continuation, count, stash>>
cmdVars == <<cmd, current, before, vcsVars, restackVars, events, pr,
             batchBranches, pushed>>

storeVars == <<base, change>>
forgeVars == <<forge, pending, forgeBase>>
inputVars == <<entry, target, noWait, noBranchCheck, session>>
awaitVars == <<delay, elapsed, waits, lastPoll>>

(***************************************************************************)
(* Small helpers.                                                          *)
(***************************************************************************)
Min(a, b) == IF a <= b THEN a ELSE b

\* Mutant: the sequence is left as it is.
NotReversed(s) == s

\* slices.Reverse
RECURSIVE Reverse(_)
Reverse(s) == IF s = <<>> THEN <<>> ELSE Append(Reverse(Tail(s)), Head(s))

RECURSIVE SelectIdx(_, _, _)
\* The indices k of s, from `from` on, in order, for which keep[k] holds.
SelectIdx(keep, from, n) ==
    IF from > n THEN <<>>
    ELSE IF keep[from] THEN <<from>> \o SelectIdx(keep, from + 1, n)
    ELSE SelectIdx(keep, from + 1, n)

(***************************************************************************)
(* The branch graph (spice.BranchGraph), built from the store.             *)
(***************************************************************************)
\* graph.Lookup(name): ok iff the branch is tracked.
LookupOk(name) == name \in DOMAIN base

\* graph.Downstack(branch): the branch, then its base, and so on, down to
\* the branch based on trunk; trunk itself is not part of it.
RECURSIVE Downstack(_)
Downstack(branch) ==
    IF ~LookupOk(branch) THEN <<>>
    ELSE <<branch>> \o Downstack(base[branch])

\* Service.ListDownstack(start): top-first.
ListDownstack(start) == Downstack(start)

(***************************************************************************)
(* The forge (forge.Repository).                                           *)
(***************************************************************************)
\* What ChangesStates reports for one change: a merge that has not settled
\* yet still shows as Open.
Reported(id) == IF id \in pending THEN "Open" ELSE forge[id]

\* Mutant: the states come back in the opposite order.
ChangesStatesReversed(ids) ==
    [k \in 1..Len(ids) |-> Reported(ids[Len(ids) + 1 - k])]

\* ChangesStates(ids): one state per ID, in input order.
ChangesStates(ids) == [k \in 1..Len(ids) |-> Reported(ids[k])]

\* One entry of the forge call log.
Call(op, ids, arg, ok, by) ==
    [op |-> op, ids |-> ids, arg |-> arg, ok |-> ok, by |-> by]

\* The log after a poll: a poll that repeats the last entry adds nothing.
Polled(log, c) ==
    IF log # <<>> /\ log[Len(log)] = c THEN log ELSE Append(log, c)

(***************************************************************************)
(* spice.ValidateDownstack                                                 *)
(***************************************************************************)
RECURSIVE StaleCandidatesOf(_)
StaleCandidatesOf(names) ==
    IF names = <<>> THEN <<>>
    ELSE LET name == Head(names)
             rest == StaleCandidatesOf(Tail(names))
         IN  IF ~LookupOk(name) \/ base[name] = Trunk THEN rest
             ELSE IF ~LookupOk(base[name]) \/ change[base[name]] = NoChange
                  THEN rest
             ELSE <<[branch |-> name, base |-> base[name],
                     changeID |-> change[base[name]]]>> \o rest

\* Mutant: only the branch itself is examined, not its downstack.
collectStaleCandidatesTopOnly(branch) == StaleCandidatesOf(<<branch>>)

\* collectStaleCandidates(graph, branch)
collectStaleCandidates(branch) == StaleCandidatesOf(Downstack(branch))

CandidateIDs(candidates) ==
    [k \in 1..Len(candidates) |-> candidates[k].changeID]

Nil == [kind |-> "nil"]
QueryError == [kind |-> "error"]
StaleBaseError(branch, b) ==
    [kind |-> "StaleBaseError", branch |-> branch, base |-> b]

\* The loop of checkStaleStates: the first candidate whose base is merged.
checkStaleStates(candidates, states) ==
    LET merged == {k \in 1..Len(candidates) : states[k] = "Merged"}
    IN  IF merged = {} THEN Nil
        ELSE LET first == CHOOSE k \in merged : \A j \in merged : k <= j
             IN  StaleBaseError(candidates[first].branch,
                                candidates[first].base)

\* ValidateDownstack(ctx, graph, forgeRepo, branch); queryOk says whether
\* the ChangesStates call, if one is made, succeeds.
ValidateDownstack(branch, queryOk) ==
    LET candidates == collectStaleCandidates(branch)
    IN  IF Len(candidates) = 0 THEN Nil
        ELSE IF ~queryOk THEN QueryError
        ELSE checkStaleStates(candidates,
                              ChangesStates(CandidateIDs(candidates)))

\* The forge calls ValidateDownstack makes.
ValidateCalls(branch, queryOk) ==
    LET candidates == collectStaleCandidates(branch)
    IN  IF Len(candidates) = 0 THEN <<>>
        ELSE <<Call("ChangesStates", CandidateIDs(candidates),
                    IF queryOk THEN ChangesStates(CandidateIDs(candidates))
                    ELSE <<>>,
                    queryOk, "ValidateDownstack")>>

(***************************************************************************)
(* merge.Handler: building the plan                                        *)
(***************************************************************************)
mergeItem(branch, changeID) == [branch |-> branch, changeID |-> changeID]

\* Mutant: a branch without a change request is left out of the items.
resolveChangesSkipUnpublished(branches, failAt) ==
    IF failAt \in 1..Len(branches)
    THEN [err |-> "lookup branch", items |-> <<>>]
    ELSE LET keep == [k \in 1..Len(branches) |->
                        change[branches[k]] # NoChange]
             at == SelectIdx(keep, 1, Len(branches))
         IN  [err |-> "",
              items |-> [k \in 1..Len(at) |->
                           mergeItem(branches[at[k]], change[branches[at[k]]])]]

\* resolveChanges(branches): the error of the first branch whose lookup
\* fails (failAt, 0 for none) or that has no change, else one item per branch.
resolveChanges(branches, failAt) ==
    LET bad == {k \in 1..Len(branches) :
                   k = failAt \/ change[branches[k]] = NoChange}
    IN  IF bad # {}
        THEN LET first == CHOOSE k \in bad : \A j \in bad : k <= j
             IN  [err |-> IF first = failAt THEN "lookup branch"
                          ELSE "no published change request",
                  items |-> <<>>]
        ELSE [err |-> "",
              items |-> [k \in 1..Len(branches) |->
                            mergeItem(branches[k], change[branches[k]])]]

ItemIDs(items) == [k \in 1..Len(items) |-> items[k].changeID]

\* Mutant: a closed change is skipped like a merged one.
filterMergedSkipClosed(items, states) ==
    [err |-> "",
     plan |-> LET keep == [k \in 1..Len(items) |-> states[k] = "Open"]
                  at == SelectIdx(keep, 1, Len(items))
              IN  [k \in 1..Len(at) |-> items[at[k]]]]

\* Mutant: a merged change is kept in the plan like an open one.
filterMergedKeepMerged(items, states) ==
    IF \E k \in 1..Len(items) : states[k] = "Closed"
    THEN [err |-> "closed, cannot merge", plan |-> <<>>]
    ELSE [err |-> "", plan |-> items]

\* The loop of filterMerged over the states the forge returned.
filterMerged(items, states) ==
    IF \E k \in 1..Len(items) : states[k] = "Closed"
    THEN [err |-> "closed, cannot merge", plan |-> <<>>]
    ELSE [err |-> "",
          plan |-> LET keep == [k \in 1..Len(items) |-> states[k] = "Open"]
                       at == SelectIdx(keep, 1, Len(items))
                   IN  [k \in 1..Len(at) |-> items[at[k]]]]

\* buildPlan(branch): ListDownstack, reverse, resolveChanges, filterMerged.
\* Yields the error (or ""), the plan and the forge calls made.
buildPlan(branch, listOk, failAt, queryOk) ==
    IF ~listOk THEN [err |-> "list downstack", plan |-> <<>>, calls |-> <<>>]
    ELSE
    LET downstack == Reverse(ListDownstack(branch))
        resolved == resolveChanges(downstack, failAt)
        ids == ItemIDs(resolved.items)
        states == ChangesStates(ids)
        filtered == filterMerged(resolved.items, states)
    IN  IF resolved.err # ""
        THEN [err |-> resolved.err, plan |-> <<>>, calls |-> <<>>]
        ELSE IF ~queryOk
        THEN [err |-> "query change states", plan |-> <<>>,
              calls |-> <<Call("ChangesStates", ids, <<>>, FALSE,
                               "filterMerged")>>]
        ELSE [err |-> filtered.err, plan |-> filtered.plan,
              calls |-> <<Call("ChangesStates", ids, states, TRUE,
                               "filterMerged")>>]

(***************************************************************************)
(* Initial states.                                                         *)
(***************************************************************************)
RECURSIVE Ancestor(_, _, _)
Ancestor(f, b, k) ==
    IF k = 0 \/ b = Trunk THEN b ELSE Ancestor(f, f[b], k - 1)

\* The branch graphs of n tracked branches: every base is trunk or another
\* tracked branch, and following base reaches trunk.
Forests(n) ==
    {f \in [1..n -> 0..n] : \A b \in 1..n : Ancestor(f, b, n) = Trunk}

\* A single stack: branch 1 on trunk, branch b on b - 1.
Stacks(n) == {[b \in 1..n |-> b - 1]}

Statuses == {"None"} \cup ChangeStates

\* The record of a run that was not interrupted.
NoContinuation == [remaining |-> <<>>, command |-> [name |-> ""]]

\* No rebase is in progress.
NoRebase == [branch |-> -1, state |-> "none"]

\* The store, the heads and the worktree as a command finds them.
Snapshot ==
    [base |-> base, change |-> change, current |-> current, head |-> head,
     baseHash |-> baseHash, stash |-> stash]

\* The state the commands other than `branch merge` add, at rest.
InitOther ==
    /\ head = [b \in DOMAIN base \cup {Trunk} |-> 0]
    /\ baseHash = [b \in DOMAIN base |-> 0]
    /\ rebasing = NoRebase
    /\ stash = "none"
    /\ before = Snapshot
    /\ remaining = <<>>
    /\ continuation = NoContinuation
    /\ count = 0
    /\ events = <<>>
    /\ pr = [base |-> Trunk, comment |-> "none"]
    /\ batchBranches = <<>>
    /\ pushed = {}

\* What every entry point starts from, apart from the repository and input.
InitIdle ==
    /\ foreign = 0
    /\ err = ""
    /\ trunk = NoTrunk
    /\ delay = 0
    /\ elapsed = 0
    /\ waits = <<>>
    /\ lastPoll = ""
    /\ cancelled = FALSE
    /\ calls = <<>>
    /\ graphBuilt = FALSE
    /\ mergeInvoked = FALSE
    /\ prompted = FALSE
    /\ trunkReads = 0
    /\ verdict = Nil
    /\ session = 1
    /\ cmd = [name |-> "branch merge"]
    /\ current = target
    /\ InitOther

\* A repository with branch graph f, where status st[b] says whether
\* branch b has a change request and in which state the forge holds it;
\* the merges in `lagging` have not settled yet.
InitRepo(f, st, lagging) ==
    /\ base = f
    /\ change = [b \in DOMAIN f |-> IF st[b] = "None" THEN NoChange ELSE b]
    /\ forge = [id \in {b \in DOMAIN f : st[b] # "None"} |-> st[id]]
    /\ forgeBase = [id \in {b \in DOMAIN f : st[b] # "None"} |-> f[id]]
    /\ pending = lagging

\* `gs branch merge [--branch target] [--no-wait] [--no-branch-check]`
Init ==
    /\ \E n \in 1..MaxBranches :
         /\ \E f \in Stacks(n), st \in [1..n -> Statuses] :
                InitRepo(f, st, {})
         /\ target \in 0..n
    /\ entry = "Run"
    /\ pc = "Run"
    /\ plan = <<>>
    /\ idx = 0
    /\ noWait \in BOOLEAN
    /\ noBranchCheck \in BOOLEAN
    /\ InitIdle

\* A direct call of h.awaitMerged(ctx, item), for any change request of a
\* stack, in any state, settled or not.
InitAwait ==
    /\ \E n \in 1..MaxBranches :
         /\ \E st \in [1..n -> ChangeStates] :
              \E lagging \in SUBSET {b \in 1..n : st[b] = "Merged"} :
                \E f \in Stacks(n) : InitRepo(f, st, lagging)
         /\ target = n
    /\ plan = <<mergeItem(target, change[target])>>
    /\ idx = 1
    /\ entry = "awaitMerged"
    /\ pc = "awaitMerged"
    /\ noWait = FALSE
    /\ noBranchCheck = FALSE
    /\ InitIdle

\* A direct call of spice.ValidateDownstack(ctx, graph, forgeRepo, branch)
\* on any branch graph.
InitValidate ==
    /\ \E n \in 1..MaxBranches :
         /\ \E f \in Forests(n), st \in [1..n -> Statuses] :
                InitRepo(f, st, {})
         /\ target \in 0..n
    /\ plan = <<>>
    /\ idx = 0
    /\ entry = "ValidateDownstack"
    /\ pc = "ValidateDownstack"
    /\ noWait = FALSE
    /\ noBranchCheck = FALSE
    /\ InitIdle

(***************************************************************************)
(* branchMergeCmd.Run                                                      *)
(***************************************************************************)
Done(e) == pc' = "done" /\ err' = e

\* resolveBranch: --branch if given (named), else the current branch, which
\* the worktree may fail to report (wtOk).
resolveBranch(named, wtOk) ==
    IF named \/ wtOk THEN [err |-> "", branch |-> target]
    ELSE [err |-> "get current branch", branch |-> Trunk]

\* Mutant: the verdict is computed, but a stale base does not stop the command.
checkDownstackLenient(branch, graphOk, queryOk) ==
    IF noBranchCheck
    THEN [err |-> "", verdict |-> Nil, calls |-> <<>>, graph |-> FALSE]
    ELSE IF ~graphOk
    THEN [err |-> "build branch graph", verdict |-> Nil, calls |-> <<>>,
          graph |-> TRUE]
    ELSE LET v == ValidateDownstack(branch, queryOk)
         IN  [err |-> IF v.kind = "error" THEN "query change states" ELSE "",
              verdict |-> v,
              calls |-> ValidateCalls(branch, queryOk),
              graph |-> TRUE]

\* Mutant: --no-branch-check is ignored.
checkDownstackAlways(branch, graphOk, queryOk) ==
    IF ~graphOk
    THEN [err |-> "build branch graph", verdict |-> Nil, calls |-> <<>>,
          graph |-> TRUE]
    ELSE LET v == ValidateDownstack(branch, queryOk)
         IN  [err |-> IF v.kind = "StaleBaseError" THEN "stale base"
                      ELSE IF v.kind = "error" THEN "query change states"
                      ELSE "",
              verdict |-> v,
              calls |-> ValidateCalls(branch, queryOk),
              graph |-> TRUE]

\* checkDownstack: its error (or ""), ValidateDownstack's verdict, the forge
\* calls made and whether the branch graph was built.
checkDownstack(branch, graphOk, queryOk) ==
    IF noBranchCheck
    THEN [err |-> "", verdict |-> Nil, calls |-> <<>>, graph |-> FALSE]
    ELSE IF ~graphOk
    THEN [err |-> "build branch graph", verdict |-> Nil, calls |-> <<>>,
          graph |-> TRUE]
    ELSE LET v == ValidateDownstack(branch, queryOk)
         IN  [err |-> IF v.kind = "StaleBaseError" THEN "stale base"
                      ELSE IF v.kind = "error" THEN "query change states"
                      ELSE "",
              verdict |-> v,
              calls |-> ValidateCalls(branch, queryOk),
              graph |-> TRUE]

\* Run, up to the call of MergeDownstack.
Run ==
    /\ pc = "Run"
    /\ cmd.name = "branch merge"
    /\ \E named, wtOk, graphOk, queryOk \in BOOLEAN :
         LET resolved == resolveBranch(named, wtOk)
             checked == checkDownstack(resolved.branch, graphOk, queryOk)
         IN  IF resolved.err # ""
             THEN /\ Done(resolved.err)
                  /\ UNCHANGED <<calls, graphBuilt, mergeInvoked, verdict>>
             ELSE IF resolved.branch = Trunk
             THEN /\ Done("cannot merge trunk")
                  /\ UNCHANGED <<calls, graphBuilt, mergeInvoked, verdict>>
             ELSE /\ calls' = calls \o checked.calls
                  /\ graphBuilt' = checked.graph
                  /\ verdict' = checked.verdict
                  /\ IF checked.err # ""
                     THEN Done(checked.err) /\ UNCHANGED mergeInvoked
                     ELSE /\ pc' = "MergeDownstack"
                          /\ mergeInvoked' = TRUE
                          /\ UNCHANGED err
    /\ UNCHANGED <<storeVars, forgeVars, foreign, inputVars, cmdVars, plan, idx, trunk,
                   awaitVars, cancelled, prompted, trunkReads>>

\* A direct call of ValidateDownstack.
Validate ==
    /\ pc = "ValidateDownstack"
    /\ \E queryOk \in BOOLEAN :
         LET v == ValidateDownstack(target, queryOk)
         IN  /\ verdict' = v
             /\ calls' = calls \o ValidateCalls(target, queryOk)
             /\ Done(IF v.kind = "nil" THEN "" ELSE v.kind)
    /\ UNCHANGED <<storeVars, forgeVars, foreign, inputVars, cmdVars, plan, idx, trunk,
                   awaitVars, cancelled, graphBuilt, mergeInvoked, prompted,
                   trunkReads>>

(***************************************************************************)
(* merge.Handler.MergeDownstack                                            *)
(***************************************************************************)
\* Mutant: the user is asked to confirm an empty plan too.
MergeDownstackConfirmsEmpty ==
    /\ pc = "MergeDownstack"
    /\ \E listOk, queryOk \in BOOLEAN, failAt \in 0..MaxBranches :
         LET built == buildPlan(target, listOk, failAt, queryOk)
         IN  /\ calls' = calls \o built.calls
             /\ plan' = built.plan
             /\ IF built.err # "" THEN Done(built.err)
                ELSE pc' = "confirm" /\ UNCHANGED err
    /\ UNCHANGED <<storeVars, forgeVars, foreign, inputVars, cmdVars, idx, trunk,
                   awaitVars, cancelled, graphBuilt, mergeInvoked, prompted,
                   trunkReads, verdict>>

\* MergeDownstack, up to the confirmation prompt.
MergeDownstack ==
    /\ pc = "MergeDownstack"
    /\ \E listOk, queryOk \in BOOLEAN, failAt \in 0..MaxBranches :
         LET built == buildPlan(target, listOk, failAt, queryOk)
         IN  /\ calls' = calls \o built.calls
             /\ plan' = built.plan
             /\ IF built.err # "" THEN Done(built.err)
                ELSE IF Len(built.plan) = 0 THEN Done("")
                ELSE pc' = "confirm" /\ UNCHANGED err
    /\ UNCHANGED <<storeVars, forgeVars, foreign, inputVars, cmdVars, idx, trunk,
                   awaitVars, cancelled, graphBuilt, mergeInvoked, prompted,
                   trunkReads, verdict>>

\* Mutant: the answer is not looked at; only a prompt that fails stops the
\* merge.
confirmAnswerIgnored ==
    /\ pc = "confirm"
    /\ prompted' = TRUE
    /\ \E answer \in {"yes", "no", "error"} :
         /\ events' = Append(events, [op |-> "Confirm", arg |-> answer])
         /\ IF answer \in {"yes", "no"}
            THEN pc' = "executePlan" /\ UNCHANGED err
            ELSE Done("run prompt")
    /\ UNCHANGED <<storeVars, forgeVars, foreign, inputVars, cmd, current,
                   before, vcsVars, restackVars, pr, batchBranches, pushed,
                   plan, idx, trunk, awaitVars, cancelled, calls, graphBuilt,
                   mergeInvoked, trunkReads, verdict>>

\* confirm(plan): the user answers yes or no, or the prompt fails.
confirm ==
    /\ pc = "confirm"
    /\ prompted' = TRUE
    /\ \E answer \in {"yes", "no", "error"} :
         /\ events' = Append(events, [op |-> "Confirm", arg |-> answer])
         /\ IF answer = "yes" THEN pc' = "executePlan" /\ UNCHANGED err
            ELSE IF answer = "no" THEN Done("merge aborted")
            ELSE Done("run prompt")
    /\ UNCHANGED <<storeVars, forgeVars, foreign, inputVars, cmd, current,
                   before, vcsVars, restackVars, pr, batchBranches, pushed,
                   plan, idx, trunk, awaitVars, cancelled, calls, graphBuilt,
                   mergeInvoked, trunkReads, verdict>>

\* Mutant: with waiting, the first item is retargeted to trunk before it is
\* merged.
executePlanRetargetFirst ==
    /\ pc = "executePlan"
    /\ trunk' = IF noWait THEN NoTrunk ELSE Trunk
    /\ trunkReads' = IF noWait THEN trunkReads ELSE trunkReads + 1
    /\ idx' = IF noWait THEN 1 ELSE 0
    /\ IF Len(plan) = 0 THEN Done("")
       ELSE /\ pc' = IF noWait THEN "MergeChange" ELSE "retargetChange"
            /\ UNCHANGED err
    /\ UNCHANGED <<storeVars, forgeVars, foreign, inputVars, cmdVars, plan, awaitVars,
                   cancelled, calls, graphBuilt, mergeInvoked, prompted,
                   verdict>>

\* executePlan, before its loop: read trunk unless noWait.
executePlan ==
    /\ pc = "executePlan"
    /\ trunk' = IF noWait THEN NoTrunk ELSE Trunk
    /\ trunkReads' = IF noWait THEN trunkReads ELSE trunkReads + 1
    /\ idx' = 1
    /\ IF Len(plan) = 0 THEN Done("") ELSE pc' = "MergeChange" /\ UNCHANGED err
    /\ UNCHANGED <<storeVars, forgeVars, foreign, inputVars, cmdVars, plan, awaitVars,
                   cancelled, calls, graphBuilt, mergeInvoked, prompted,
                   verdict>>

\* Mutant: go on to retarget and merge without awaiting the merge.
AfterMergeNoAwait ==
    IF ~noWait /\ idx # Len(plan) THEN "retargetChange"
    ELSE IF idx = Len(plan) THEN "done"
    ELSE "MergeChange"

\* Mutant: await and retarget even with noWait.
AfterMergeAlwaysAwait ==
    IF idx # Len(plan) THEN "awaitMerged" ELSE "done"

\* Mutant: the last item is awaited like the others.
AfterMergeAwaitLast ==
    IF ~noWait THEN "awaitMerged"
    ELSE IF idx = Len(plan) THEN "done"
    ELSE "MergeChange"

\* Where executePlan goes after MergeChange(plan[idx]) succeeded.
AfterMerge ==
    IF ~noWait /\ idx # Len(plan) THEN "awaitMerged"
    ELSE IF idx = Len(plan) THEN "done"
    ELSE "MergeChange"

\* Mutant: a MergeChange that fails is tried again.
MergeChangeRetried ==
    /\ pc = "MergeChange"
    /\ LET id == plan[idx].changeID
       IN  \E transportOk, lag \in BOOLEAN :
             LET ok == transportOk /\ forge[id] = "Open"
             IN  /\ calls' = Append(calls,
                        Call("MergeChange", <<id>>, <<>>, ok, "executePlan"))
                 /\ IF ok
                    THEN /\ forge' = [forge EXCEPT ![id] = "Merged"]
                         /\ pending' = IF lag THEN pending \cup {id}
                                       ELSE pending
                         /\ pc' = AfterMerge
                         /\ idx' = IF AfterMerge = "MergeChange"
                                   THEN idx + 1 ELSE idx
                         /\ UNCHANGED err
                    ELSE /\ UNCHANGED <<pc, err>>
                         /\ UNCHANGED <<forge, pending, idx>>
    /\ UNCHANGED <<storeVars, forgeBase, foreign, inputVars, cmdVars, plan, trunk,
                   awaitVars, cancelled, graphBuilt, mergeInvoked, prompted,
                   trunkReads, verdict>>

\* One round of executePlan's loop: MergeChange(plan[idx]). The forge
\* merges an open change request, or fails.
MergeChange ==
    /\ pc = "MergeChange"
    /\ LET id == plan[idx].changeID
       IN  \E transportOk, lag \in BOOLEAN :
             LET ok == transportOk /\ forge[id] = "Open"
             IN  /\ calls' = Append(calls,
                        Call("MergeChange", <<id>>, <<>>, ok, "executePlan"))
                 /\ IF ok
                    THEN /\ forge' = [forge EXCEPT ![id] = "Merged"]
                         /\ pending' = IF lag THEN pending \cup {id}
                                       ELSE pending
                         /\ pc' = AfterMerge
                         /\ idx' = IF AfterMerge = "MergeChange"
                                   THEN idx + 1 ELSE idx
                         /\ UNCHANGED err
                    ELSE /\ Done("merge")
                         /\ UNCHANGED <<forge, pending, idx>>
    /\ UNCHANGED <<storeVars, forgeBase, foreign, inputVars, cmdVars, plan, trunk,
                   awaitVars, cancelled, graphBuilt, mergeInvoked, prompted,
                   trunkReads, verdict>>

(***************************************************************************)
(* merge.Handler.awaitMerged                                               *)
(***************************************************************************)
\* Mutant: the delay doubles without a cap.
NextDelayUncapped(d) == d * 2

\* The backoff step: delay = min(delay*2, _maxDelay).
NextDelay(d) == Min(d * 2, MaxDelay)

\* Mutant: a poll of anything but Open ends the wait.
SettledUnlessOpen(state) == state # "Open"

\* The test that ends the wait: states[0] == forge.ChangeMerged.
Settled(state) == state = "Merged"

\* Entry: the timeout context is made and delay starts at _initialDelay.
awaitMerged ==
    /\ pc = "awaitMerged"
    /\ delay' = InitialDelay
    /\ elapsed' = 0
    /\ waits' = <<>>
    /\ lastPoll' = ""
    /\ pc' = "poll"
    /\ UNCHANGED <<storeVars, forgeVars, foreign, inputVars, cmdVars, err, plan, idx,
                   trunk, cancelled, calls, graphBuilt, mergeInvoked,
                   prompted, trunkReads, verdict>>

\* Where awaitMerged returns to on success: settleAndRetarget goes on to
\* retargetChange; a direct caller gets nil.
AfterAwait == IF entry = "awaitMerged" THEN "done" ELSE "retargetChange"

\* The time a call of ChangesStates may take, in milliseconds.
PollTimes == {0, PollTime, MaxPollTime}

\* One poll: ChangesStates(ctx, [id]); return nil if Merged, else arm the
\* timer. The call takes its time, which counts towards the deadline of
\* ctx; whether a call the deadline falls into fails is the forge's choice.
Poll ==
    /\ pc = "poll"
    /\ LET id == plan[idx].changeID
           states == ChangesStates(<<id>>)
       IN  \E ok \in BOOLEAN, took \in PollTimes :
             /\ elapsed' = elapsed + took
             /\ calls' = Polled(calls,
                    Call("ChangesStates", <<id>>,
                         IF ok THEN states ELSE <<>>, ok, "awaitMerged"))
             /\ IF ~ok
                THEN Done("poll state") /\ UNCHANGED <<waits, lastPoll>>
                ELSE /\ lastPoll' = states[1]
                     /\ IF Settled(states[1])
                        THEN /\ pc' = AfterAwait
                             /\ UNCHANGED <<err, waits>>
                        ELSE /\ pc' = "select"
                             /\ waits' = Append(waits, delay)
                             /\ UNCHANGED err
    /\ UNCHANGED <<storeVars, forgeVars, foreign, inputVars, cmdVars, plan, idx, trunk,
                   delay, cancelled, graphBuilt, mergeInvoked,
                   prompted, trunkReads, verdict>>

\* Mutant: the timer runs out even though the context was cancelled.
TimerFiresThoughCancelled ==
    /\ pc = "select"
    /\ elapsed + delay <= Timeout
    /\ elapsed' = elapsed + delay
    /\ delay' = NextDelay(delay)
    /\ pc' = "poll"
    /\ UNCHANGED <<storeVars, forgeVars, foreign, inputVars, cmdVars, err, plan, idx,
                   trunk, waits, lastPoll, cancelled, calls, graphBuilt,
                   mergeInvoked, prompted, trunkReads, verdict>>

\* The select: the timer fires after `delay`, unless the context is done
\* first (cancelled, or the deadline falls before the timer); when both
\* are ready together either may be taken. `elapsed` is the time since
\* the timeout context was made, the polls' own time included.
TimerFires ==
    /\ pc = "select"
    /\ ~cancelled
    /\ elapsed + delay <= Timeout
    /\ elapsed' = elapsed + delay
    /\ delay' = NextDelay(delay)
    /\ pc' = "poll"
    /\ UNCHANGED <<storeVars, forgeVars, foreign, inputVars, cmdVars, err, plan, idx,
                   trunk, waits, lastPoll, cancelled, calls, graphBuilt,
                   mergeInvoked, prompted, trunkReads, verdict>>

ContextDone ==
    /\ pc = "select"
    /\ cancelled \/ elapsed + delay >= Timeout
    /\ elapsed' = IF cancelled \/ elapsed >= Timeout THEN elapsed ELSE Timeout
    /\ Done("timed out waiting")
    /\ UNCHANGED <<storeVars, forgeVars, foreign, inputVars, cmdVars, plan, idx, trunk,
                   delay, waits, lastPoll, cancelled, calls, graphBuilt,
                   mergeInvoked, prompted, trunkReads, verdict>>

(***************************************************************************)
(* merge.Handler.retargetChange                                            *)
(***************************************************************************)
\* Mutant: the merged item itself is retargeted, not its successor.
RetargetMerged == plan[idx]

\* The item settleAndRetarget retargets after plan[idx] merged: plan[i+1].
RetargetItem == plan[idx + 1]

\* Mutant: the branch's base in the state store is set to trunk as well.
retargetChangeInStore ==
    /\ pc = "retargetChange"
    /\ LET id == RetargetItem.changeID
       IN  \E ok \in BOOLEAN :
             /\ calls' = Append(calls,
                    Call("EditChange", <<id>>, <<trunk>>, ok,
                         "retargetChange"))
             /\ IF ok
                THEN /\ forgeBase' = [forgeBase EXCEPT ![id] = trunk]
                     /\ base' = [base EXCEPT ![RetargetItem.branch] = trunk]
                     /\ idx' = idx + 1
                     /\ pc' = "MergeChange"
                     /\ UNCHANGED err
                ELSE /\ Done("retarget")
                     /\ UNCHANGED <<forgeBase, idx, base>>
    /\ UNCHANGED <<change, forge, pending, foreign, inputVars, cmdVars, plan, trunk,
                   awaitVars, cancelled, graphBuilt, mergeInvoked, prompted,
                   trunkReads, verdict>>

retargetChange ==
    /\ pc = "retargetChange"
    /\ LET id == RetargetItem.changeID
       IN  \E ok \in BOOLEAN :
             /\ calls' = Append(calls,
                    Call("EditChange", <<id>>, <<trunk>>, ok,
                         "retargetChange"))
             /\ IF ok
                THEN /\ forgeBase' = [forgeBase EXCEPT ![id] = trunk]
                     /\ idx' = idx + 1
                     /\ pc' = "MergeChange"
                     /\ UNCHANGED err
                ELSE /\ Done("retarget")
                     /\ UNCHANGED <<forgeBase, idx>>
    /\ UNCHANGED <<storeVars, forge, pending, foreign, inputVars, cmdVars, plan, trunk,
                   awaitVars, cancelled, graphBuilt, mergeInvoked, prompted,
                   trunkReads, verdict>>

(***************************************************************************)
(* The environment: the forge and the caller's context.                    *)
(***************************************************************************)
runVars == <<pc, err, plan, idx, trunk, calls, graphBuilt, mergeInvoked,
             prompted, trunkReads, verdict>>

\* A merge settles: ChangesStates reports it from now on.
ForgeSettle ==
    /\ pc # "done"
    /\ \E id \in pending : pending' = pending \ {id}
    /\ UNCHANGED <<storeVars, forge, forgeBase, foreign, inputVars, cmdVars, awaitVars,
                   cancelled, runVars>>

\* Somebody else closes or merges an open change request.
ForeignChange ==
    /\ pc # "done"
    /\ foreign < MaxForeign
    /\ foreign' = foreign + 1
    /\ \E id \in DOMAIN forge, to \in {"Closed", "Merged"} :
         /\ forge[id] = "Open"
         /\ forge' = [forge EXCEPT ![id] = to]
    /\ UNCHANGED <<storeVars, pending, forgeBase, inputVars, cmdVars, awaitVars,
                   cancelled, runVars>>

\* The caller's context is cancelled while awaitMerged runs.
Cancel ==
    /\ pc \in {"poll", "select"}
    /\ ~cancelled
    /\ cancelled' = TRUE
    /\ UNCHANGED <<storeVars, forgeVars, foreign, inputVars, cmdVars, awaitVars,
                   runVars>>

Environment == ForgeSettle \/ ForeignChange \/ Cancel

(***************************************************************************)
(* Specifications.                                                         *)
(***************************************************************************)
Await == awaitMerged \/ Poll \/ TimerFires \/ ContextDone

Next ==
    \/ Run
    \/ MergeDownstack
    \/ confirm
    \/ executePlan
    \/ MergeChange
    \/ Await
    \/ retargetChange
    \/ Environment

Spec == Init /\ [][Next]_vars

\* awaitMerged on its own, and with the loop scheduled fairly: the
\* goroutine runs, its timer fires and its context expires.
NextAwait == Await \/ Environment

SpecAwait == InitAwait /\ [][NextAwait]_vars

SpecAwaitFair == SpecAwait /\ WF_vars(Await)

\* ValidateDownstack on its own.
SpecValidate == InitValidate /\ [][Validate]_vars

(***************************************************************************)
(* Properties.                                                             *)
(***************************************************************************)
\* The branches the downstack walk from b visits: b and its ancestors.
Walk(b) ==
    {x \in DOMAIN base : \E k \in 0..Cardinality(DOMAIN base) :
                            Ancestor(base, b, k) = x}

\* The branches strictly below b.
Below(b) == IF b \in DOMAIN base THEN Walk(base[b]) ELSE {}

MergeOrEdit(c) == c.op \in {"MergeChange", "EditChange"}

\* The plan position of a change ID.
PlanIndex(id) == CHOOSE j \in DOMAIN plan : plan[j].changeID = id

\* The calls issued by one function, in order.
CallsBy(who) == SelectSeq(calls, LAMBDA c : c.by = who)

MergeOf(item) == Call("MergeChange", <<item.changeID>>, <<>>, TRUE,
                      "executePlan")
MergedPollOf(item) == Call("ChangesStates", <<item.changeID>>, <<"Merged">>,
                           TRUE, "awaitMerged")
RetargetOf(item) == Call("EditChange", <<item.changeID>>, <<Trunk>>, TRUE,
                         "retargetChange")

Succeeded == pc = "done" /\ err = ""

\* C1: with noWait=false the forge sees, for every plan item but the last,
\* MergeChange(p[i]), then polls of p[i] the last of which reports Merged,
\* then EditChange(p[i+1], base=trunk), then MergeChange(p[i+1]); merges and
\* edits never go back to an earlier item, and a successful run merges all.
C1_MergeEditOrder ==
    ~noWait =>
      /\ \A k \in DOMAIN calls :
           /\ calls[k].op = "MergeChange" =>
                \E j \in DOMAIN plan :
                  /\ calls[k].ids = <<plan[j].changeID>>
                  /\ IF j = 1
                     THEN \A m \in 1..(k - 1) : ~MergeOrEdit(calls[m])
                     ELSE k > 1 /\ calls[k - 1] = RetargetOf(plan[j])
           /\ calls[k].op = "EditChange" =>
                \E j \in 2..Len(plan) :
                  /\ calls[k].ids = <<plan[j].changeID>>
                  /\ calls[k].arg = <<Trunk>>
                  /\ k > 2
                  /\ calls[k - 1] = MergedPollOf(plan[j - 1])
                  /\ \E m \in 1..(k - 2) :
                       /\ calls[m] = MergeOf(plan[j - 1])
                       /\ \A n \in (m + 1)..(k - 1) :
                            /\ calls[n].by = "awaitMerged"
                            /\ calls[n].ids = <<plan[j - 1].changeID>>
      /\ \A k, l \in DOMAIN calls :
           (k < l /\ MergeOrEdit(calls[k]) /\ MergeOrEdit(calls[l]))
              => PlanIndex(calls[k].ids[1]) <= PlanIndex(calls[l].ids[1])
      /\ (Succeeded /\ mergeInvoked) =>
           \A j \in DOMAIN plan : \E k \in DOMAIN calls : calls[k] = MergeOf(plan[j])

\* A three-item plan merged with waiting, where some poll found the merge
\* not settled yet.
C1_Witness ==
    /\ Succeeded /\ ~noWait /\ Len(plan) = 3
    /\ \E k \in DOMAIN calls :
         calls[k].by = "awaitMerged" /\ calls[k].arg = <<"Open">>

\* The filterMerged query, if it was answered: its position in the log.
PlanQueries ==
    {q \in DOMAIN calls : calls[q].by = "filterMerged" /\ calls[q].ok}

SawClosed(q) == \E k \in DOMAIN calls[q].arg : calls[q].arg[k] = "Closed"

\* The change IDs the query q reported in state st.
ReportedAs(q, st) ==
    {calls[q].ids[k] : k \in {m \in DOMAIN calls[q].ids : calls[q].arg[m] = st}}

\* C2: when no downstack change is Closed the plan holds exactly the
\* downstack branches whose change is Open, each with its change ID, bottom-up
\* (every item is below the next one); Merged ones are left out.
C2_PlanIsOpenBottomUp ==
    \A q \in PlanQueries :
      ~SawClosed(q) =>
        /\ {calls[q].ids[k] : k \in DOMAIN calls[q].ids}
             = {change[b] : b \in Walk(target)}
        /\ {plan[k].branch : k \in DOMAIN plan}
             = {b \in Walk(target) : change[b] \in ReportedAs(q, "Open")}
        /\ \A k \in DOMAIN plan :
             /\ plan[k].changeID = change[plan[k].branch]
             /\ plan[k].changeID \notin ReportedAs(q, "Merged")
        /\ \A k \in 1..(Len(plan) - 1) :
             plan[k].branch \in Below(plan[k + 1].branch)

\* A stack of three whose bottom change is merged: the plan holds the other
\* two.
C2_Witness ==
    \E q \in PlanQueries :
      /\ ~SawClosed(q)
      /\ ReportedAs(q, "Merged") # {}
      /\ Len(plan) = 2

\* C3: if the plan query reports a Closed change, MergeDownstack returns an
\* error, shows no prompt and issues no MergeChange and no EditChange.
C3_ClosedFailsFast ==
    \A q \in PlanQueries :
      SawClosed(q) =>
        /\ pc = "done"
        /\ err # ""
        /\ ~prompted
        /\ plan = <<>>
        /\ \A k \in DOMAIN calls : ~MergeOrEdit(calls[k])

\* A closed change on top of an open one.
C3_Witness ==
    \E q \in PlanQueries :
      /\ Len(calls[q].arg) >= 2
      /\ calls[q].arg[1] = "Open"
      /\ calls[q].arg[Len(calls[q].arg)] = "Closed"
      /\ pc = "done"

\* C4 as claimed: after any successful MergeDownstack, with or without
\* noWait, every plan item is Merged on the forge and the successor of every
\* item but the last was retargeted to trunk.
C4_Original ==
    (Succeeded /\ mergeInvoked) =>
      \A k \in DOMAIN plan :
        /\ forge[plan[k].changeID] = "Merged"
        /\ k < Len(plan) =>
             \E m \in DOMAIN calls : calls[m] = RetargetOf(plan[k + 1])

\* C4, amended: after any successful MergeDownstack every plan item is
\* Merged on the forge; with noWait=false the successor of every item but
\* the last was retargeted to trunk and has trunk as its base on the forge;
\* with noWait=true nothing was retargeted.
C4_MergedAndRetargeted ==
    (Succeeded /\ mergeInvoked) =>
      /\ \A k \in DOMAIN plan :
           /\ forge[plan[k].changeID] = "Merged"
           /\ (~noWait /\ k < Len(plan)) =>
                /\ \E m \in DOMAIN calls : calls[m] = RetargetOf(plan[k + 1])
                /\ forgeBase[plan[k + 1].changeID] = Trunk
      /\ noWait => \A m \in DOMAIN calls : calls[m].op # "EditChange"

\* A successful merge of two or more changes with waiting.
C4_Witness == Succeeded /\ mergeInvoked /\ ~noWait /\ Len(plan) >= 2

\* The change awaitMerged waits for.
Awaited == plan[idx].changeID

\* What awaitMerged may and may not report.
AwaitSafe ==
    /\ pc = "done" => (err = "" <=> lastPoll = "Merged")
    /\ lastPoll = "Merged" => pc = "done"
    /\ Succeeded =>
         /\ forge[Awaited] = "Merged" /\ Awaited \notin pending
         /\ calls[Len(calls)] = MergedPollOf(plan[idx])
    /\ err = "timed out waiting" => (elapsed >= Timeout \/ cancelled)
    /\ err \in {"", "timed out waiting", "poll state"}
    /\ pc = "poll" => elapsed <= Timeout

\* A wait is over when its timer fires, and no timer fires past the
\* deadline: where the deadline has come, the next step is the return.
WaitsWithinDeadline ==
    /\ (pc = "select" /\ pc' = "poll") =>
         (elapsed' = elapsed + delay /\ elapsed' <= Timeout)
    /\ (pc = "select" /\ elapsed >= Timeout /\ pc' # pc) =>
         (pc' = "done" /\ err' = "timed out waiting" /\ elapsed' = elapsed)

\* C5: awaitMerged always terminates; it returns success exactly when a
\* poll reported Merged (then the change is merged and settled on the forge,
\* never Open or Closed), and its timeout error comes only once the 2-minute
\* deadline is reached (or the caller cancelled); it never waits past the
\* deadline.
C5_AwaitTerminates ==
    []AwaitSafe /\ [][WaitsWithinDeadline]_vars /\ <>(pc = "done")

\* Success after three polls that did not report Merged.
C5_Witness == Succeeded /\ Len(waits) >= 3 /\ lastPoll = "Merged"

RECURSIVE Pow2(_)
Pow2(n) == IF n = 0 THEN 1 ELSE 2 * Pow2(n - 1)

\* C6: the k-th wait of awaitMerged (k = 0, 1, ...) is min(500 ms * 2^k, 8 s):
\* it starts at 500 ms, doubles, never decreases and never exceeds 8 s; the
\* wait armed in the select is the latest of them, and before the first
\* completed poll no time has been waited.
C6_Backoff ==
    /\ \A k \in DOMAIN waits :
         /\ waits[k] = Min(InitialDelay * Pow2(k - 1), MaxDelay)
         /\ waits[k] <= MaxDelay
         /\ k > 1 => waits[k] >= waits[k - 1]
    /\ pc = "select" => delay = waits[Len(waits)]
    /\ (pc = "poll" /\ waits # <<>>) => delay = NextDelay(waits[Len(waits)])
    /\ (pc = "poll" /\ lastPoll = "") =>
         (waits = <<>> /\ delay = InitialDelay /\ elapsed = 0)

\* Seven waits: 500 ms, 1 s, 2 s, 4 s, then 8 s three times.
C6_Witness == Len(waits) >= 7 /\ pc = "poll"

\* C7: with noWait=true executePlan calls MergeChange once per plan item, in
\* plan order, stopping at the first failure; it polls nothing, edits
\* nothing and does not read trunk from the store.
C7_NoWaitOnlyMerges ==
    noWait =>
      /\ trunkReads = 0
      /\ trunk = NoTrunk
      /\ \A k \in DOMAIN calls :
           /\ calls[k].op # "EditChange"
           /\ calls[k].by \notin {"awaitMerged", "retargetChange"}
           /\ calls[k].op = "ChangesStates" =>
                \A m \in 1..k : calls[m].op # "MergeChange"
      /\ LET merges == CallsBy("executePlan")
         IN  /\ Len(merges) <= Len(plan)
             /\ \A k \in DOMAIN merges :
                  /\ merges[k].op = "MergeChange"
                  /\ merges[k].ids = <<plan[k].changeID>>
                  /\ k < Len(merges) => merges[k].ok
             /\ (Succeeded /\ mergeInvoked) =>
                  /\ Len(merges) = Len(plan)
                  /\ \A k \in DOMAIN merges : merges[k].ok

\* Three changes merged without waiting.
C7_Witness == noWait /\ Succeeded /\ Len(plan) = 3

\* The visited branches whose base is a tracked branch with a published
\* change that the forge holds as Merged.
StaleBranches(b) ==
    {x \in Walk(b) :
        /\ base[x] # Trunk
        /\ base[x] \in DOMAIN base
        /\ change[base[x]] # NoChange
        /\ forge[change[base[x]]] = "Merged"}

\* C8: ValidateDownstack, when the forge answers its query, returns a
\* StaleBaseError iff some visited branch has a non-trunk, published base that
\* is Merged; the error names such a branch and its base; otherwise (bases
\* Open or Closed, unpublished or trunk) it returns nil.
C8_StaleBaseIff ==
    (entry = "ValidateDownstack" /\ pc = "done") =>
      /\ verdict.kind = "error" =>
           \E k \in DOMAIN calls : calls[k].op = "ChangesStates" /\ ~calls[k].ok
      /\ verdict.kind # "error" =>
           /\ verdict.kind = "StaleBaseError" <=> StaleBranches(target) # {}
           /\ verdict.kind = "StaleBaseError" =>
                /\ verdict.branch \in StaleBranches(target)
                /\ verdict.base = base[verdict.branch]
           /\ StaleBranches(target) = {} => verdict = Nil

\* The deep stack: the error names a branch below the one asked about.
C8_Witness ==
    /\ entry = "ValidateDownstack" /\ pc = "done"
    /\ verdict.kind = "StaleBaseError"
    /\ verdict.branch # target
    /\ \E x \in Walk(target) :
         /\ base[x] # Trunk /\ change[base[x]] # NoChange
         /\ forge[change[base[x]]] = "Closed"

ValidationCalls == {k \in DOMAIN calls : calls[k].by = "ValidateDownstack"}

\* The stale-base validation failed: it found a merged base, its query
\* failed, or the branch graph could not be built.
ValidationFailed ==
    \/ verdict.kind # "nil"
    \/ err \in {"stale base", "build branch graph"}
    \/ \E k \in ValidationCalls :
         ~calls[k].ok \/ \E m \in DOMAIN calls[k].arg : calls[k].arg[m] = "Merged"

\* C9: without --no-branch-check the validation runs before MergeDownstack;
\* when it fails the command returns an error, MergeDownstack is never
\* invoked, no prompt is shown, and the forge sees no plan query, no
\* MergeChange and no EditChange.
C9_ValidationGuardsMerge ==
    ~noBranchCheck =>
      /\ mergeInvoked => (graphBuilt /\ verdict = Nil)
      /\ ValidationFailed =>
           /\ pc = "done"
           /\ err # ""
           /\ ~mergeInvoked
           /\ ~prompted
           /\ \A k \in DOMAIN calls : calls[k].by = "ValidateDownstack"

\* A stale base stopped the command.
C9_Witness ==
    /\ ~noBranchCheck /\ pc = "done"
    /\ verdict.kind = "StaleBaseError"
    /\ change[target] # NoChange
    /\ forge[change[target]] = "Open"

\* Branch resolution failed or the branch is trunk: Run returns before
\* checkDownstack.
StoppedEarly == err \in {"get current branch", "cannot merge trunk"}

\* C10: with --no-branch-check no branch graph is built and no validation
\* query is issued, and unless Run stopped before checkDownstack it goes on
\* to MergeDownstack, merged bases or not.
C10_NoBranchCheckBypasses ==
    noBranchCheck =>
      /\ ~graphBuilt
      /\ ValidationCalls = {}
      /\ verdict = Nil
      /\ (pc # "Run" /\ ~StoppedEarly) => mergeInvoked

\* A branch whose base is merged is merged all the same.
C10_Witness ==
    /\ noBranchCheck /\ Succeeded /\ mergeInvoked
    /\ Len(plan) >= 1
    /\ \E q \in PlanQueries :
         /\ calls[q].arg[1] = "Merged"
         /\ \E k \in DOMAIN calls : calls[k] = MergeOf(plan[1])

\* The branch a change request belongs to.
BranchOf(id) == CHOOSE b \in DOMAIN change : change[b] = id

\* The change requests this run merged, in the order it merged them.
MergedByRun ==
    SelectSeq(calls, LAMBDA c : c.op = "MergeChange" /\ c.ok)

\* The change requests of the downstack that are merged on the forge and
\* were not merged by this run.
AlreadyMerged ==
    {change[b] : b \in {x \in Walk(target) :
                          /\ change[x] # NoChange
                          /\ forge[change[x]] = "Merged"}}
      \ {MergedByRun[k].ids[1] : k \in DOMAIN MergedByRun}

\* C11 as claimed: on a downstack with already-merged changes the command,
\* unless the forge, the store or the user stops it, skips them and merges
\* the rest: it ends in success with every change of the downstack merged.
C11_Original ==
    (entry = "Run" /\ pc = "done" /\ AlreadyMerged # {}
       /\ err \in {"", "stale base"}) =>
      /\ err = ""
      /\ \A b \in Walk(target) :
           change[b] # NoChange /\ forge[change[b]] = "Merged"

\* C11, amended: no MergeChange is ever issued for a change the plan query
\* reported Merged; a run that reaches MergeDownstack and succeeds has
\* merged exactly the changes reported Open, bottom-up; and the command
\* reaches MergeDownstack only with --no-branch-check or when the stale-base
\* validation passed: a merged base stops it before anything is merged.
C11_SkipsMerged ==
    /\ \A q \in PlanQueries :
         /\ \A k \in DOMAIN calls :
              calls[k].op = "MergeChange" =>
                calls[k].ids[1] \notin ReportedAs(q, "Merged")
         /\ (Succeeded /\ ~SawClosed(q)) =>
              /\ {MergedByRun[k].ids[1] : k \in DOMAIN MergedByRun}
                   = ReportedAs(q, "Open")
              /\ \A k \in 1..(Len(MergedByRun) - 1) :
                   BranchOf(MergedByRun[k].ids[1])
                     \in Below(BranchOf(MergedByRun[k + 1].ids[1]))
    /\ (entry = "Run" /\ pc # "Run" /\ ~StoppedEarly) =>
         (mergeInvoked <=> (noBranchCheck \/ ~ValidationFailed))
    /\ err = "stale base" =>
         /\ ~noBranchCheck
         /\ verdict.kind = "StaleBaseError"
         /\ forge[change[verdict.base]] = "Merged"
         /\ \A k \in DOMAIN calls : ~MergeOrEdit(calls[k])

\* The middle change of a stack of three was already merged: the bottom and
\* the top one are merged, in that order.
C11_Witness ==
    /\ Succeeded /\ mergeInvoked
    /\ \E q \in PlanQueries : calls[q].arg = <<"Open", "Merged", "Open">>
    /\ Len(MergedByRun) = 2

(***************************************************************************)
(* The other commands share the repository with `branch merge`; these are  *)
(* the variables only `branch merge` works on.                             *)
(***************************************************************************)
mergeVars == <<foreign, inputVars, plan, trunk, awaitVars, cancelled,
               graphBuilt, mergeInvoked, prompted, trunkReads, verdict>>

\* A log line or an operation on the worktree, in `events`.
Event(op, arg) == [op |-> op, arg |-> arg]

(***************************************************************************)
(* ciMergeGuardCmd (`gs ci merge-guard`)                                   *)
(***************************************************************************)
\* resolveChangeID: the forge may refuse to build a change ID.
resolveChangeID(unmarshalOk) ==
    IF unmarshalOk THEN "" ELSE "construct change ID"

\* Mutant: a listing error counts as a comment that names no trunk.
trunkFromNavCommentErrManaged(listOk) ==
    LET listed == <<Event("ListChangeComments", "NavCommentRegexes")>>
    IN  IF ~listOk
        THEN [trunk |-> NoTrunk, managed |-> TRUE,
              log |-> listed \o <<Event("Warn", "Error listing comments")>>]
        ELSE IF pr.managed
        THEN [trunk |-> pr.navTrunk, managed |-> TRUE, log |-> listed]
        ELSE [trunk |-> NoTrunk, managed |-> FALSE, log |-> listed]

\* trunkFromNavComment: the first navigation comment listed decides; a
\* listing error is logged and counts as no comment.
trunkFromNavComment(listOk) ==
    LET listed == <<Event("ListChangeComments", "NavCommentRegexes")>>
    IN  IF ~listOk
        THEN [trunk |-> NoTrunk, managed |-> FALSE,
              log |-> listed \o <<Event("Warn", "Error listing comments")>>]
        ELSE IF pr.managed
        THEN [trunk |-> pr.navTrunk, managed |-> TRUE, log |-> listed]
        ELSE [trunk |-> NoTrunk, managed |-> FALSE, log |-> listed]

\* Mutant: --trunk names the trunk, the comments still say whether the
\* change request is managed.
detectTrunkManagedFromComment(listOk) ==
    LET nav == trunkFromNavComment(listOk)
    IN  IF cmd.Trunk # NoTrunk
        THEN [trunk |-> cmd.Trunk, managed |-> nav.managed, err |-> "",
              log |-> nav.log]
        ELSE IF nav.trunk # NoTrunk
        THEN [trunk |-> nav.trunk, managed |-> nav.managed, err |-> "",
              log |-> nav.log]
        ELSE IF ~nav.managed
        THEN [trunk |-> NoTrunk, managed |-> FALSE, err |-> "",
              log |-> nav.log]
        ELSE [trunk |-> NoTrunk, managed |-> TRUE,
              err |-> "could not determine trunk", log |-> nav.log]

\* detectTrunk: (trunk, managed, error).
detectTrunk(listOk) ==
    LET nav == trunkFromNavComment(listOk)
    IN  IF cmd.Trunk # NoTrunk
        THEN [trunk |-> cmd.Trunk, managed |-> TRUE, err |-> "", log |-> <<>>]
        ELSE IF nav.trunk # NoTrunk
        THEN [trunk |-> nav.trunk, managed |-> nav.managed, err |-> "",
              log |-> nav.log]
        ELSE IF ~nav.managed
        THEN [trunk |-> NoTrunk, managed |-> FALSE, err |-> "",
              log |-> nav.log]
        ELSE [trunk |-> NoTrunk, managed |-> TRUE,
              err |-> "could not determine trunk", log |-> nav.log]

\* evaluate(log, change, trunk, managed): the error returned (or "") and
\* the line logged.
evaluate(BaseName, trunkName, managed) ==
    IF ~managed
    THEN IF cmd.All
         THEN [err |-> "unmanaged PR blocked by --all", log |-> <<>>]
         ELSE [err |-> "",
               log |-> <<Event("Info", "not managed by git-spice, allowing")>>]
    ELSE IF BaseName = trunkName
    THEN [err |-> "", log |-> <<Event("Info", "base is trunk, safe to merge")>>]
    ELSE [err |-> "base is not trunk", log |-> <<>>]

\* ciMergeGuardCmd.Run, up to the answer of FindChangeByID: the change is
\* the change request as the forge holds it at that time.
ciMergeGuardRun ==
    /\ pc = "Run"
    /\ cmd.name = "ci merge-guard"
    /\ \E unmarshalOk, findOk \in BOOLEAN :
         IF resolveChangeID(unmarshalOk) # ""
         THEN Done(resolveChangeID(unmarshalOk)) /\ UNCHANGED events
         ELSE IF ~findOk
         THEN Done("find change") /\ UNCHANGED events
         ELSE /\ events' = Append(events,
                     Event("FindChangeByID", [BaseName |-> pr.base]))
              /\ pc' = "detectTrunk"
              /\ UNCHANGED err
    /\ UNCHANGED <<mergeVars, storeVars, forgeVars, idx, calls, cmd,
                   current, before, vcsVars, restackVars, pr, batchBranches,
                   pushed>>

\* The change FindChangeByID returned.
FoundChange ==
    LET found == SelectSeq(events, LAMBDA ev : ev.op = "FindChangeByID")
    IN  found[Len(found)].arg

\* Between the two requests of the command somebody else retargets the
\* change request, or a navigation comment is posted on it or deleted.
PullRequestChanges ==
    /\ pc = "detectTrunk"
    /\ foreign < MaxForeign
    /\ foreign' = foreign + 1
    /\ \E b \in 0..MaxBranches, managed \in BOOLEAN,
          t \in {NoTrunk} \cup 0..MaxBranches :
         /\ ~managed => t = NoTrunk
         /\ pr' = [base |-> b, managed |-> managed, navTrunk |-> t]
         /\ pr' # pr
    /\ UNCHANGED <<storeVars, forgeVars, inputVars, plan, trunk, awaitVars,
                   cancelled, graphBuilt, mergeInvoked, prompted, trunkReads,
                   verdict, pc, err, idx, calls, cmd, current, before,
                   vcsVars, restackVars, events, batchBranches, pushed>>

\* ciMergeGuardCmd.Run, from detectTrunk on: the comments are listed, and
\* evaluate decides on the change found before and on what was listed.
ciMergeGuardDecide ==
    /\ pc = "detectTrunk"
    /\ cmd.name = "ci merge-guard"
    /\ \E listOk \in BOOLEAN :
         LET detected == detectTrunk(listOk)
             decided == evaluate(FoundChange.BaseName, detected.trunk,
                                 detected.managed)
         IN  IF detected.err # ""
             THEN /\ Done(detected.err)
                  /\ events' = events \o detected.log
             ELSE /\ Done(decided.err)
                  /\ events' = events \o detected.log \o decided.log
    /\ UNCHANGED <<mergeVars, storeVars, forgeVars, idx, calls, cmd,
                   current, before, vcsVars, restackVars, pr, batchBranches,
                   pushed>>

\* The state of a repository no command of which is running.
InitCommand ==
    /\ pc = "Run"
    /\ plan = <<>>
    /\ idx = 0
    /\ target = Trunk
    /\ noWait = FALSE
    /\ noBranchCheck = FALSE
    /\ foreign = 0
    /\ err = ""
    /\ trunk = NoTrunk
    /\ delay = 0
    /\ elapsed = 0
    /\ waits = <<>>
    /\ lastPoll = ""
    /\ cancelled = FALSE
    /\ calls = <<>>
    /\ graphBuilt = FALSE
    /\ mergeInvoked = FALSE
    /\ prompted = FALSE
    /\ trunkReads = 0
    /\ verdict = Nil
    /\ session = 1

\* A repository every branch of which is restacked.
InitVCS ==
    /\ head = [b \in DOMAIN base \cup {Trunk} |-> 0]
    /\ baseHash = [b \in DOMAIN base |-> 0]
    /\ rebasing = NoRebase

\* No restack is under way.
InitRestack ==
    /\ remaining = <<>>
    /\ continuation = NoContinuation
    /\ count = 0
    /\ events = <<>>
    /\ stash = "none"

\* No change request for `ci merge-guard` to look at, no submit batch.
InitForge ==
    /\ pr = [base |-> Trunk, managed |-> FALSE, navTrunk |-> NoTrunk]
    /\ batchBranches = <<>>

\* `gs ci merge-guard NUMBER [--trunk NAME] [--all]` on a change request with
\* any base, with or without a navigation comment; the comment names a
\* trunk, or none that can be extracted.
InitGuard ==
    /\ \E f \in Stacks(MaxBranches) :
         InitRepo(f, [b \in 1..MaxBranches |-> "Open"], {})
    /\ entry = "ci merge-guard"
    /\ InitCommand
    /\ \E t \in {NoTrunk} \cup 0..MaxBranches, all \in BOOLEAN :
         cmd = [name |-> "ci merge-guard", Trunk |-> t, All |-> all]
    /\ current = Trunk
    /\ InitVCS
    /\ InitRestack
    /\ before = Snapshot
    /\ \E b \in 0..MaxBranches, managed \in BOOLEAN,
          t \in {NoTrunk} \cup 0..MaxBranches :
         /\ ~managed => t = NoTrunk
         /\ pr = [base |-> b, managed |-> managed, navTrunk |-> t]
    /\ batchBranches = <<>>
    /\ pushed = {}

NextGuard ==
    \/ ciMergeGuardRun
    \/ PullRequestChanges
    \/ ciMergeGuardDecide

SpecGuard == InitGuard /\ [][NextGuard]_vars

\* The trunk of the change request's repository as the command is told it:
\* --trunk if given, else the trunk the navigation comment names, else the
\* repository's trunk.
GuardTrunk ==
    IF cmd.Trunk # NoTrunk THEN cmd.Trunk
    ELSE IF pr.managed /\ pr.navTrunk # NoTrunk THEN pr.navTrunk
    ELSE Trunk

\* The command could not look at the change request or its comments, or
\* found a navigation comment that names no trunk.
GuardFailed ==
    \/ err \in {"construct change ID", "find change",
                "could not determine trunk"}
    \/ \E k \in DOMAIN events : events[k].op = "Warn"

\* C12: `ci merge-guard` exits 0 exactly when the change request's base is
\* trunk, or the change request is unmanaged (has no navigation comment) and
\* --all is not given; the base is the one FindChangeByID returned, the
\* comments are those the forge holds when they are listed.
C12_ExitCodes ==
    (entry = "ci merge-guard" /\ pc = "done" /\ ~GuardFailed) =>
      (err = "" <=> (FoundChange.BaseName = GuardTrunk
                       \/ (~pr.managed /\ ~cmd.All)))

(***************************************************************************)
(* downstackSubmitCmd (`gs downstack submit`) and the submit batch         *)
(***************************************************************************)
\* cmd.Branch == "": no --branch was given.
NoBranch == -1

\* The branch a command works on: its argument, or the current branch,
\* which the worktree may fail to report (wtOk).
branchOrCurrent(name, wtOk) ==
    IF name # NoBranch THEN [err |-> "", branch |-> name]
    ELSE IF wtOk THEN [err |-> "", branch |-> current]
    ELSE [err |-> "get current branch", branch |-> NoBranch]

\* Mutant: the downstack is handed over as listed, top first.
downstackSubmitBranchesTopFirst(branch) == ListDownstack(branch)

\* The batch downstackSubmitCmd.Run hands to SubmitBatch:
\* svc.ListDownstack(cmd.Branch), reversed.
downstackSubmitBranches(branch) == Reverse(ListDownstack(branch))

\* downstackSubmitCmd.Run, up to the call of SubmitBatch.
downstackSubmitRun ==
    /\ pc = "Run"
    /\ cmd.name = "downstack submit"
    /\ \E wtOk, listOk \in BOOLEAN :
         LET resolved == branchOrCurrent(cmd.Branch, wtOk)
             downstacks == downstackSubmitBranches(resolved.branch)
         IN  IF resolved.err # ""
             THEN Done(resolved.err) /\ UNCHANGED <<batchBranches, idx>>
             ELSE IF resolved.branch = Trunk
             THEN /\ Done("nothing to submit below trunk")
                  /\ UNCHANGED <<batchBranches, idx>>
             ELSE IF ~listOk
             THEN Done("list downstack") /\ UNCHANGED <<batchBranches, idx>>
             ELSE IF Len(downstacks) = 0
             THEN /\ Done("panic: downstack cannot be empty")
                  /\ UNCHANGED <<batchBranches, idx>>
             ELSE /\ batchBranches' = downstacks
                  /\ idx' = 1
                  /\ pc' = "SubmitBatch"
                  /\ UNCHANGED err
    /\ UNCHANGED <<mergeVars, storeVars, forgeVars, calls, cmd, current,
                   before, vcsVars, restackVars, events, pr, pushed>>

\* The forge knows the branch a change request is to be merged into.
KnownToForge(b) == b = Trunk \/ b \in pushed

\* SubmitBatch, one branch: push it, then create its change request
\* (SubmitChange, which fails with ErrUnsubmittedBase when the forge does not
\* know the base) or update the one it has (EditChange). An error aborts the
\* batch; the branches submitted before stay bound.
SubmitBranch ==
    /\ pc = "SubmitBatch"
    /\ LET b == batchBranches[idx]
           next == IF idx = Len(batchBranches) THEN "done" ELSE "SubmitBatch"
       IN  \E pushOk, forgeOk \in BOOLEAN :
             IF ~pushOk
             THEN /\ calls' = Append(calls,
                        Call("Push", <<b>>, <<>>, FALSE, "SubmitBatch"))
                  /\ Done("push")
                  /\ UNCHANGED <<change, forge, forgeBase, pushed, idx>>
             ELSE
             /\ pushed' = pushed \cup {b}
             /\ IF change[b] = NoChange
                THEN LET ok == forgeOk /\ KnownToForge(base[b])
                     IN  /\ calls' = calls \o
                              <<Call("Push", <<b>>, <<>>, TRUE, "SubmitBatch"),
                                Call("SubmitChange", <<b>>, <<base[b]>>, ok,
                                     "SubmitBatch")>>
                         /\ IF ok
                            THEN /\ change' = [change EXCEPT ![b] = b]
                                 /\ forge' = (b :> "Open") @@ forge
                                 /\ forgeBase' = (b :> base[b]) @@ forgeBase
                                 /\ pc' = next
                                 /\ idx' = idx + 1
                                 /\ UNCHANGED err
                            ELSE /\ Done(IF KnownToForge(base[b])
                                         THEN "submit change"
                                         ELSE "ErrUnsubmittedBase")
                                 /\ UNCHANGED <<change, forge, forgeBase, idx>>
                ELSE /\ calls' = calls \o
                          <<Call("Push", <<b>>, <<>>, TRUE, "SubmitBatch"),
                            Call("EditChange", <<change[b]>>, <<base[b]>>,
                                 forgeOk, "SubmitBatch")>>
                     /\ UNCHANGED change
                     /\ IF forgeOk
                        THEN /\ forgeBase' =
                                  [forgeBase EXCEPT ![change[b]] = base[b]]
                             /\ pc' = next
                             /\ idx' = idx + 1
                             /\ UNCHANGED <<err, forge>>
                        ELSE /\ Done("edit change")
                             /\ UNCHANGED <<forge, forgeBase, idx>>
    /\ UNCHANGED <<mergeVars, base, pending, cmd, current, before, vcsVars,
                   restackVars, events, pr, batchBranches>>

\* `gs downstack submit [--branch NAME]` in a repository some branches of
\* which were submitted before; those and their bases are on the remote.
InitSubmit ==
    /\ \E n \in 1..MaxBranches :
         /\ \E f \in Forests(n), st \in [1..n -> {"None", "Open"}] :
              /\ InitRepo(f, st, {})
              /\ pushed = {b \in 1..n :
                              \/ st[b] # "None"
                              \/ \E c \in 1..n : st[c] # "None" /\ f[c] = b}
         /\ \E b \in {NoBranch} \cup 0..n :
              cmd = [name |-> "downstack submit", Branch |-> b]
         /\ current \in 0..n
    /\ entry = "downstack submit"
    /\ InitCommand
    /\ InitVCS
    /\ InitRestack
    /\ before = Snapshot
    /\ InitForge

NextSubmit == downstackSubmitRun \/ SubmitBranch

SpecSubmit == InitSubmit /\ [][NextSubmit]_vars

\* The branch the command was asked to work on.
Requested == IF cmd.Branch # NoBranch THEN cmd.Branch ELSE current

\* The successful calls of one kind, in order.
CallsOf(op) == SelectSeq(calls, LAMBDA c : c.op = op /\ c.ok)

\* C13: the batch `downstack submit` hands over is the downstack bottom-up:
\* it starts at the branch based on trunk, each next branch is based on the
\* one before, and it ends at the requested branch; so every branch's base is
\* pushed, and has its change request, before the branch is submitted, and
\* the forge never answers ErrUnsubmittedBase.
C13_SubmitBottomUp ==
    entry = "downstack submit" =>
      /\ batchBranches # <<>> =>
           /\ base[batchBranches[1]] = Trunk
           /\ batchBranches[Len(batchBranches)] = Requested
           /\ \A k \in 1..(Len(batchBranches) - 1) :
                base[batchBranches[k + 1]] = batchBranches[k]
      /\ \A k \in DOMAIN calls :
           calls[k].op \in {"SubmitChange", "EditChange"} =>
             LET b == IF calls[k].op = "SubmitChange" THEN calls[k].ids[1]
                      ELSE BranchOf(calls[k].ids[1])
             IN  /\ calls[k].arg = <<base[b]>>
                 /\ base[b] # Trunk =>
                      /\ \E m \in 1..(k - 1) :
                           calls[m] = Call("Push", <<base[b]>>, <<>>, TRUE,
                                           "SubmitBatch")
                      /\ \/ before.change[base[b]] # NoChange
                         \/ \E m \in 1..(k - 1) :
                              calls[m] = Call("SubmitChange", <<base[b]>>,
                                              <<base[base[b]]>>, TRUE,
                                              "SubmitBatch")
      /\ LET created == CallsOf("SubmitChange")
         IN  \A k, l \in DOMAIN created :
               k < l => created[k].ids[1] \in Below(created[l].ids[1])
      /\ err # "ErrUnsubmittedBase"
      /\ Succeeded =>
           \A b \in DOMAIN base :
             (b = Requested \/ b \in Below(Requested)) =>
                change[b] # NoChange /\ b \in pushed

\* Three branches, none submitted before: three change requests are
\* created, the bottom one first.
C13_Witness ==
    /\ entry = "downstack submit" /\ Succeeded
    /\ Len(CallsOf("SubmitChange")) = 3
    /\ CallsOf("SubmitChange")[1].arg = <<Trunk>>

(***************************************************************************)
(* The restack engine (restack.Handler.Restack)                            *)
(***************************************************************************)
RECURSIVE SortedSeq(_)
\* The members of a set of branch names, in the order of their names.
SortedSeq(S) ==
    IF S = {} THEN <<>>
    ELSE LET m == CHOOSE x \in S : \A y \in S : x <= y
         IN  <<m>> \o SortedSeq(S \ {m})

\* The branches based on b, in the order of their names.
Aboves(b) == SortedSeq({c \in DOMAIN base : base[c] = b})

RECURSIVE UpstackFrom(_, _)
UpstackFrom(queue, i) ==
    IF i > Len(queue) THEN queue
    ELSE UpstackFrom(queue \o Aboves(queue[i]), i + 1)

\* graph.Upstack(b): b, then the branches above it, parents before children.
Upstack(b) == UpstackFrom(<<b>>, 1)

\* Mutant: the list is put together children first.
RestackListChildrenFirst(branch, scope) ==
    IF scope = "Branch" THEN <<branch>>
    ELSE IF scope = "Upstack" /\ branch # Trunk
    THEN Reverse(Upstack(branch))
    ELSE IF scope \in {"Upstack", "UpstackExclusive"}
    THEN Reverse(Tail(Upstack(branch)))
    ELSE Reverse(Reverse(Downstack(branch)) \o Tail(Upstack(branch)))

\* Step 1: the branches of the request's scope, in dependency order. Trunk
\* is not a tracked branch and is never part of the list.
RestackList(branch, scope) ==
    IF scope = "Branch" THEN <<branch>>
    ELSE IF scope = "Upstack" /\ branch # Trunk THEN Upstack(branch)
    ELSE IF scope \in {"Upstack", "UpstackExclusive"}
    THEN Tail(Upstack(branch))
    ELSE Reverse(Downstack(branch)) \o Tail(Upstack(branch))

\* Mutant: a branch counts as up to date whenever it was restacked once.
NeedsRestackStale(b) == baseHash[b] = 0

\* A branch is up to date iff HeadHash(base) == record.baseHash.
NeedsRestack(b) == head[base[b]] # baseHash[b]

\* The hash of a commit made now: one no branch has or had.
FreshHash ==
    LET used == {head[x] : x \in DOMAIN head}
                  \cup {baseHash[x] : x \in DOMAIN baseHash}
    IN  1 + CHOOSE m \in used : \A h \in used : h <= m

\* Mutant: `repo restack` names another command to continue with.
repoRestackRequestOtherCommand ==
    [Branch |-> Trunk, Scope |-> "UpstackExclusive",
     ContinueCommand |-> [name |-> "upstack restack", Branch |-> NoBranch,
                          SkipStart |-> FALSE]]

\* The restack.Request of `repo restack`.
repoRestackRequest ==
    [Branch |-> Trunk, Scope |-> "UpstackExclusive",
     ContinueCommand |-> [name |-> "repo restack"]]

\* The restack.Request RestackUpstack makes for `upstack restack`.
upstackRestackRequest(branch) ==
    [Branch |-> branch,
     Scope |-> IF cmd.SkipStart THEN "UpstackExclusive" ELSE "Upstack",
     ContinueCommand |-> [name |-> "upstack restack", Branch |-> branch,
                          SkipStart |-> cmd.SkipStart]]

\* The request of the restack under way, as logged when Restack was called.
Requests == SelectSeq(events, LAMBDA ev : ev.op = "Restack")
Request == Requests[Len(Requests)].arg

\* Restack, before its loop: the list is the stored continuation's, if
\* there is one, else the list of the request's scope.
Restack ==
    /\ pc = "Restack"
    /\ IF continuation # NoContinuation
       THEN /\ remaining' = continuation.remaining
            /\ continuation' = NoContinuation
       ELSE /\ remaining' = RestackList(Request.Branch, Request.Scope)
            /\ UNCHANGED continuation
    /\ count' = 0
    /\ pc' = "restackLoop"
    /\ UNCHANGED <<mergeVars, storeVars, forgeVars, idx, calls, err, cmd,
                   current, before, vcsVars, stash, events, pr,
                   batchBranches, pushed>>

\* Step 2, for the next branch of the list: a branch that is up to date is
\* passed over; the branch whose rebase was in progress and has been
\* finished in the VCS has its baseHash recorded; any other is checked out
\* and its rebase begins.
RestackNext ==
    /\ pc = "restackLoop"
    /\ IF remaining = <<>>
       THEN /\ pc' = "afterRestack"
            /\ UNCHANGED <<current, vcsVars, remaining, count, events>>
       ELSE LET b == Head(remaining)
            IN  IF rebasing = [branch |-> b, state |-> "clean"]
                THEN /\ baseHash' = [baseHash EXCEPT ![b] = head[base[b]]]
                     /\ rebasing' = NoRebase
                     /\ count' = count + 1
                     /\ remaining' = Tail(remaining)
                     /\ events' = Append(events, Event("Commit", b))
                     /\ UNCHANGED <<pc, current, head>>
                ELSE IF ~NeedsRestack(b)
                THEN /\ remaining' = Tail(remaining)
                     /\ events' = Append(events, Event("Skip", b))
                     /\ UNCHANGED <<pc, current, vcsVars, count>>
                ELSE /\ current' = b
                     /\ rebasing' = [branch |-> b, state |-> "running"]
                     /\ events' = events \o <<Event("Checkout", b),
                                              Event("Rebase", b)>>
                     /\ pc' = "rebase"
                     /\ UNCHANGED <<head, baseHash, remaining, count>>
    /\ UNCHANGED <<mergeVars, storeVars, forgeVars, idx, calls, err, cmd,
                   before, continuation, stash, pr, batchBranches, pushed>>

\* The rebase ends: in success, and the new baseHash is committed to the
\* store, or in a conflict, and the continuation is stored.
RebaseEnds ==
    /\ pc = "rebase"
    /\ LET b == Head(remaining)
       IN  \E conflict \in BOOLEAN :
             IF ~conflict
             THEN /\ head' = [head EXCEPT ![b] = FreshHash]
                  /\ baseHash' = [baseHash EXCEPT ![b] = head[base[b]]]
                  /\ rebasing' = NoRebase
                  /\ count' = count + 1
                  /\ remaining' = Tail(remaining)
                  /\ events' = Append(events, Event("Commit", b))
                  /\ pc' = "restackLoop"
                  /\ UNCHANGED <<err, continuation>>
             ELSE /\ rebasing' = [branch |-> b, state |-> "conflict"]
                  /\ continuation' =
                       [remaining |-> remaining,
                        command |-> Request.ContinueCommand]
                  /\ events' = Append(events, Event("Conflict", b))
                  /\ pc' = "afterRestack"
                  /\ err' = "conflict"
                  /\ UNCHANGED <<head, baseHash, count, remaining>>
    /\ UNCHANGED <<mergeVars, storeVars, forgeVars, idx, calls, cmd, current,
                   before, stash, pr, batchBranches, pushed>>

(***************************************************************************)
(* repoRestackCmd (`gs repo restack`)                                      *)
(***************************************************************************)
\* BeginAutostash: uncommitted changes, if there are any, are stashed.
BeginAutostash(worktree) == IF worktree = "dirty" THEN "stashed" ELSE worktree

\* The cleanup BeginAutostash returns: the stash is restored when the error
\* it is shown is nil, and kept otherwise.
cleanup(worktree, e) ==
    IF worktree # "stashed" THEN worktree
    ELSE IF e = "" THEN "restored" ELSE "preserved"

\* repoRestackCmd.Run, up to the call of handler.Restack.
repoRestackRun ==
    /\ pc = "Run"
    /\ cmd.name = "repo restack"
    /\ \E wtOk, stashOk \in BOOLEAN :
         IF ~wtOk
         THEN Done("get current branch") /\ UNCHANGED <<events, stash>>
         ELSE IF ~stashOk
         THEN /\ Done("begin autostash")
              /\ events' = Append(events, Event("BeginAutostash", FALSE))
              /\ UNCHANGED stash
         ELSE /\ stash' = BeginAutostash(stash)
              /\ events' = events \o <<Event("BeginAutostash", TRUE),
                                       Event("Restack", repoRestackRequest)>>
              /\ pc' = "Restack"
              /\ UNCHANGED err
    /\ UNCHANGED <<mergeVars, storeVars, forgeVars, idx, calls, cmd, current,
                   before, vcsVars, remaining, continuation, count, pr,
                   batchBranches, pushed>>

\* Mutant: cleanup is shown the error as it was when it was deferred: nil.
retErrWhenDeferred(e) == ""

\* `defer cleanup(&retErr)`: the error cleanup sees is the one Run returns.
retErr(e) == e

\* Run returns e: the deferred cleanup runs.
repoRestackReturn(e) ==
    /\ stash' = cleanup(stash, retErr(e))
    /\ Done(e)

\* Mutant: the branch is checked out again whatever the count.
nothingToRestackNever(n) == FALSE

\* `if count == 0`: nothing was restacked.
nothingToRestack(n) == n = 0

\* Mutant: after the restack the branch rebased last stays checked out.
repoRestackAfterNoCheckout ==
    /\ pc = "afterRestack"
    /\ cmd.name = "repo restack"
    /\ IF err # ""
       THEN repoRestackReturn(err) /\ UNCHANGED <<current, events>>
       ELSE IF nothingToRestack(count)
       THEN /\ repoRestackReturn("")
            /\ events' = Append(events, Event("Info", "Nothing to restack"))
            /\ UNCHANGED current
       ELSE /\ events' = Append(events, Event("Info", "Restacked branches"))
            /\ repoRestackReturn("")
            /\ UNCHANGED current
    /\ UNCHANGED <<mergeVars, storeVars, forgeVars, idx, calls, cmd, before,
                   vcsVars, remaining, continuation, count, pr,
                   batchBranches, pushed>>

\* repoRestackCmd.Run, once handler.Restack returned (count, err).
repoRestackAfter ==
    /\ pc = "afterRestack"
    /\ cmd.name = "repo restack"
    /\ IF err # ""
       THEN repoRestackReturn(err) /\ UNCHANGED <<current, events>>
       ELSE IF nothingToRestack(count)
       THEN /\ repoRestackReturn("")
            /\ events' = Append(events, Event("Info", "Nothing to restack"))
            /\ UNCHANGED current
       ELSE \E checkoutOk \in BOOLEAN :
              IF checkoutOk
              THEN /\ current' = before.current
                   /\ events' = events \o
                        <<Event("Checkout", before.current),
                          Event("Info", "Restacked branches")>>
                   /\ repoRestackReturn("")
              ELSE /\ repoRestackReturn("checkout")
                   /\ UNCHANGED <<current, events>>
    /\ UNCHANGED <<mergeVars, storeVars, forgeVars, idx, calls, cmd, before,
                   vcsVars, remaining, continuation, count, pr,
                   batchBranches, pushed>>

(***************************************************************************)
(* upstackRestackCmd (`gs upstack restack`)                                *)
(***************************************************************************)
\* AfterApply and Run, up to handler.RestackUpstack; verifyRestackFromTrunk
\* may turn down a restack that starts at trunk.
upstackRestackRun ==
    /\ pc = "Run"
    /\ cmd.name = "upstack restack"
    /\ \E wtOk, verifyOk \in BOOLEAN :
         LET resolved == branchOrCurrent(cmd.Branch, wtOk)
         IN  IF resolved.err # ""
             THEN Done(resolved.err) /\ UNCHANGED events
             ELSE IF resolved.branch = Trunk /\ ~verifyOk
             THEN Done("restack from trunk") /\ UNCHANGED events
             ELSE /\ events' = Append(events,
                       Event("Restack", upstackRestackRequest(resolved.branch)))
                  /\ pc' = "Restack"
                  /\ UNCHANGED err
    /\ UNCHANGED <<mergeVars, storeVars, forgeVars, idx, calls, cmd, current,
                   before, vcsVars, restackVars, pr, batchBranches, pushed>>

\* Run returns what RestackUpstack returned.
upstackRestackAfter ==
    /\ pc = "afterRestack"
    /\ cmd.name = "upstack restack"
    /\ Done(err)
    /\ UNCHANGED <<mergeVars, storeVars, forgeVars, idx, calls, cmd, current,
                   before, vcsVars, restackVars, events, pr, batchBranches,
                   pushed>>

(***************************************************************************)
(* The user, after a conflict.                                             *)
(***************************************************************************)
\* The user resolves the conflict and the VCS finishes the rebase.
UserResolves ==
    /\ pc = "done"
    /\ rebasing.state = "conflict"
    /\ head' = [head EXCEPT ![rebasing.branch] = FreshHash]
    /\ rebasing' = [rebasing EXCEPT !.state = "clean"]
    /\ UNCHANGED <<mergeVars, storeVars, forgeVars, idx, calls, pc, err, cmd,
                   current, before, baseHash, restackVars, events, pr,
                   batchBranches, pushed>>

\* The runs of a continue command so far.
Resumes == SelectSeq(events, LAMBDA ev : ev.op = "Invoke")

\* The user runs the continue command the continuation names.
Reinvoke ==
    /\ pc = "done"
    /\ continuation # NoContinuation
    /\ rebasing.state = "clean"
    /\ Len(Resumes) < MaxResumes
    /\ cmd' = continuation.command
    /\ pc' = "Run"
    /\ err' = ""
    /\ stash' \in {"none", "dirty"}
    /\ before' = [Snapshot EXCEPT !.stash = stash']
    /\ count' = 0
    /\ events' = Append(events, Event("Invoke", continuation))
    /\ UNCHANGED <<mergeVars, storeVars, forgeVars, idx, calls, current,
                   vcsVars, remaining, continuation, pr, batchBranches,
                   pushed>>

\* `gs repo restack` or `gs upstack restack [--branch NAME] [--skip-start]`
\* in a repository where any of the branches may need a restack.
InitRestackCommands ==
    /\ \E n \in 1..MaxBranches :
         /\ \E f \in Forests(n) : InitRepo(f, [b \in 1..n |-> "None"], {})
         /\ \/ /\ cmd = [name |-> "repo restack"]
               /\ stash \in {"none", "dirty"}
               /\ current \in {Trunk, n}
            \/ /\ \E b \in {NoBranch} \cup 0..n, skip \in BOOLEAN :
                    /\ cmd = [name |-> "upstack restack", Branch |-> b,
                              SkipStart |-> skip]
                    /\ current \in IF b = NoBranch THEN 0..n ELSE {Trunk}
               /\ stash = "none"
         /\ head = [x \in 0..n |-> x + 1]
         /\ \E stale \in SUBSET (1..n) :
              baseHash = [b \in 1..n |->
                            IF b \in stale THEN 0 ELSE head[base[b]]]
    /\ entry = "restack"
    /\ InitCommand
    /\ rebasing = NoRebase
    /\ before = Snapshot
    /\ remaining = <<>>
    /\ continuation = NoContinuation
    /\ count = 0
    /\ events = <<>>
    /\ InitForge
    /\ pushed = {}

NextRestack ==
    \/ repoRestackRun
    \/ repoRestackAfter
    \/ upstackRestackRun
    \/ upstackRestackAfter
    \/ Restack
    \/ RestackNext
    \/ RebaseEnds
    \/ UserResolves
    \/ Reinvoke

SpecRestack == InitRestackCommands /\ [][NextRestack]_vars

(***************************************************************************)
(* Properties of restack.                                                  *)
(***************************************************************************)
\* Where the latest run of a continue command starts in `events` (0: the
\* command was not continued).
LastInvoke ==
    LET at == {k \in DOMAIN events : events[k].op = "Invoke"}
    IN  IF at = {} THEN 0 ELSE CHOOSE k \in at : \A j \in at : j <= k

Resumed == LastInvoke # 0

\* What the invocation at hand has done so far.
ThisRun == SubSeq(events, LastInvoke + 1, Len(events))

\* handler.Restack was called by the invocation at hand.
RestackCalled == \E k \in DOMAIN ThisRun : ThisRun[k].op = "Restack"

\* The list L of the restack at hand: the continuation's when the command
\* was continued, else the branches of the scope.
RestackL ==
    IF Resumed THEN events[LastInvoke].arg.remaining
    ELSE RestackList(Request.Branch, Request.Scope)

\* The branches the invocation at hand is through with, in order.
Visited ==
    LET through == SelectSeq(ThisRun, LAMBDA ev : ev.op \in {"Skip", "Commit"})
    IN  [k \in DOMAIN through |-> through[k].arg]

\* The positions in `events` where a rebase begins.
Rebases == {k \in DOMAIN events : events[k].op = "Rebase"}

\* C14: restack goes parents before children and strictly serially: no
\* branch of the list comes before one of its ancestors, the branches are
\* gone through in the order of the list, and between the start of one
\* rebase and the start of the next the first one's baseHash was committed;
\* while a rebase runs, the base it rebases onto is not waiting for a restack
\* of its own.
C14_RestackSerial ==
    (entry = "restack" /\ RestackCalled /\ pc # "Restack") =>
      /\ \A i, j \in DOMAIN RestackL :
           i < j => RestackL[j] \notin Below(RestackL[i])
      /\ Visited \o remaining = RestackL
      /\ \A m, k \in Rebases :
           m < k =>
             \E j \in (m + 1)..(k - 1) :
               events[j] = Event("Commit", events[m].arg)
      /\ pc = "rebase" =>
           LET b == Head(remaining)
           IN  /\ rebasing = [branch |-> b, state |-> "running"]
               /\ current = b
               /\ \A k \in DOMAIN remaining : k > 1 => remaining[k] # base[b]
               /\ base[b] \in {RestackL[k] : k \in DOMAIN RestackL} =>
                    ~NeedsRestack(base[b])

\* Three branches, one on top of the other, were rebased one after the
\* other.
C14_Witness ==
    /\ entry = "restack" /\ Succeeded /\ ~Resumed
    /\ Cardinality(Rebases) = 3
    /\ \E b \in DOMAIN base : base[b] # Trunk /\ base[base[b]] # Trunk

\* The restack of the invocation at hand returned without error and the
\* command ended.
RestackSucceeded == entry = "restack" /\ RestackCalled /\ Succeeded

\* C15: after a restack that succeeded, every branch it went through has, as
\* its stored baseHash, the hash its base has now; after `repo restack` that
\* is every tracked branch, after `upstack restack` the branch and all that
\* is above it (the branch itself left out with --skip-start).
C15_UpToDateAfter ==
    RestackSucceeded =>
      /\ \A k \in DOMAIN RestackL :
           head[base[RestackL[k]]] = baseHash[RestackL[k]]
      /\ cmd.name = "repo restack" =>
           \A b \in DOMAIN base : head[base[b]] = baseHash[b]
      /\ cmd.name = "upstack restack" =>
           \A b \in DOMAIN base :
             Request.Branch \in Below(b) => head[base[b]] = baseHash[b]
      /\ (cmd.name = "upstack restack" /\ ~cmd.SkipStart
            /\ Request.Branch # Trunk) =>
           head[base[Request.Branch]] = baseHash[Request.Branch]

\* `repo restack` succeeded on a stack in which the bottom branch alone was
\* behind its base: the two above it had to follow.
C15_Witness ==
    /\ RestackSucceeded /\ cmd.name = "repo restack" /\ ~Resumed
    /\ Cardinality(DOMAIN base) = 3
    /\ Cardinality({b \in DOMAIN base :
                      before.head[before.base[b]] # before.baseHash[b]}) = 1
    /\ count = 3

\* The command line that runs the invocation at hand again.
ThisCommand ==
    IF cmd.name = "repo restack" THEN [name |-> "repo restack"]
    ELSE [name |-> "upstack restack", Branch |-> Request.Branch,
          SkipStart |-> cmd.SkipStart]

\* s is what is left of t from some position on.
IsSuffix(s, t) ==
    /\ Len(s) <= Len(t)
    /\ s = SubSeq(t, Len(t) - Len(s) + 1, Len(t))

\* C16: a rebase that conflicts at L[i] stores a continuation with L[i:] and
\* the command to continue with, and the command fails; the command run again
\* after the conflict is resolved goes through the stored branches only, in
\* their order, and when it succeeds none of them is left and no
\* continuation is stored.
C16_Continuation ==
    /\ (entry = "restack" /\ pc = "done" /\ err = "conflict") =>
         /\ rebasing.state \in {"conflict", "clean"}
         /\ continuation.remaining # <<>>
         /\ Head(continuation.remaining) = rebasing.branch
         /\ Visited \o continuation.remaining = RestackL
         /\ continuation.command = ThisCommand
         /\ ~Succeeded
    /\ continuation # NoContinuation =>
         /\ rebasing.state \in {"conflict", "clean"}
         /\ Head(continuation.remaining) = rebasing.branch
    /\ (entry = "restack" /\ Resumed) =>
         /\ cmd = events[LastInvoke].arg.command
         /\ RestackCalled =>
              /\ RestackL = events[LastInvoke].arg.remaining
              /\ \E k \in 0..Len(RestackL) : Visited = SubSeq(RestackL, 1, k)
              /\ \A k \in DOMAIN ThisRun :
                   ThisRun[k].op \in {"Skip", "Commit", "Rebase", "Conflict"}
                     => \E j \in DOMAIN RestackL : RestackL[j] = ThisRun[k].arg
    /\ (RestackSucceeded /\ Resumed) =>
         /\ Visited = events[LastInvoke].arg.remaining
         /\ continuation = NoContinuation
         /\ rebasing = NoRebase
    /\ \A k \in DOMAIN events :
         events[k].op = "Invoke" =>
           \E j \in 1..(k - 1) :
             /\ events[j].op = "Restack"
             /\ \A i \in (j + 1)..(k - 1) : events[i].op # "Restack"
             /\ IsSuffix(events[k].arg.remaining,
                         IF \E i \in 1..j : events[i].op = "Invoke"
                         THEN events[CHOOSE i \in 1..j :
                                /\ events[i].op = "Invoke"
                                /\ \A h \in (i + 1)..j : events[h].op # "Invoke"
                              ].arg.remaining
                         ELSE RestackList(events[j].arg.Branch,
                                          events[j].arg.Scope))

\* `repo restack` stopped at a conflict in the second of three branches, was
\* run again after the conflict was resolved and finished the two that were
\* left.
C16_Witness ==
    /\ RestackSucceeded /\ Resumed /\ cmd.name = "repo restack"
    /\ Len(RestackL) = 2
    /\ Visited = RestackL
    /\ Cardinality(DOMAIN base) = 3
    /\ continuation = NoContinuation

\* When the invocation at hand began, no branch of its restack list was
\* behind its base.
WasUpToDate ==
    \A k \in DOMAIN RestackL :
      before.head[before.base[RestackL[k]]] = before.baseHash[RestackL[k]]

Logged(op, arg) == \E k \in DOMAIN ThisRun : ThisRun[k] = Event(op, arg)

Did(op) == \E k \in DOMAIN ThisRun : ThisRun[k].op = op

\* C17: a restack of a stack that is up to date rebases nothing, changes no
\* record and returns the count 0; `repo restack` then says that there is
\* nothing to restack, checks nothing out and succeeds.
C17_NothingToRestack ==
    (entry = "restack" /\ ~Resumed /\ RestackCalled /\ WasUpToDate
       /\ pc \in {"afterRestack", "done"}) =>
      /\ ~Did("Rebase") /\ ~Did("Conflict") /\ ~Did("Commit")
      /\ count = 0
      /\ base = before.base /\ change = before.change
      /\ baseHash = before.baseHash /\ head = before.head
      /\ continuation = NoContinuation /\ rebasing = NoRebase
      /\ Visited = RestackL
      /\ (cmd.name = "repo restack" /\ pc = "done") =>
           /\ Logged("Info", "Nothing to restack")
           /\ ~Did("Checkout")
           /\ current = before.current
           /\ err = ""

\* `repo restack` with three tracked branches, all up to date, started on a
\* branch other than trunk.
C17_Witness ==
    /\ entry = "restack" /\ cmd.name = "repo restack" /\ pc = "done"
    /\ RestackCalled /\ WasUpToDate /\ ~Resumed
    /\ Len(RestackL) = 3
    /\ current # Trunk
    /\ Logged("Info", "Nothing to restack")

\* C18: `repo restack` begins the autostash before it calls Restack, and the
\* cleanup runs on every exit after that with the error the command returns:
\* the uncommitted changes stay stashed while the command runs, are restored
\* iff the command succeeds and are preserved in the stash when Restack or
\* the last checkout fails; when the autostash cannot begin Restack is not
\* called and the working tree is left as it was.
C18_Autostash ==
    (entry = "restack" /\ cmd.name = "repo restack") =>
      /\ \A k \in DOMAIN ThisRun :
           ThisRun[k].op = "Restack" =>
             k > 1 /\ ThisRun[k - 1] = Event("BeginAutostash", TRUE)
      /\ Logged("BeginAutostash", FALSE) =>
           /\ ~RestackCalled
           /\ pc = "done" /\ err # ""
           /\ stash = before.stash
      /\ (Logged("BeginAutostash", TRUE) /\ before.stash = "dirty") =>
           /\ pc # "done" => stash = "stashed"
           /\ pc = "done" =>
                /\ stash = "restored" <=> err = ""
                /\ stash = "preserved" <=> err # ""
                /\ err \in {"conflict", "checkout"} => stash = "preserved"
      /\ before.stash = "none" => stash = "none"

\* Uncommitted changes were stashed, the branches were restacked, and the
\* checkout of the branch the command started on failed: the changes are
\* still in the stash.
C18_Witness ==
    /\ entry = "restack" /\ cmd.name = "repo restack" /\ pc = "done"
    /\ before.stash = "dirty"
    /\ err = "checkout"
    /\ count > 0
    /\ stash = "preserved"

(***************************************************************************)
(* branchUntrackCmd (`gs branch untrack [branch]`)                         *)
(***************************************************************************)
\* Service.ForgetBranch, its error: state.ErrNotExist for a branch that has
\* no record; storeOk is whether the store could be written.
ForgetBranchErr(b, storeOk) ==
    IF b \notin DOMAIN base THEN "ErrNotExist"
    ELSE IF ~storeOk THEN "store"
    ELSE ""

\* Service.ForgetBranch, the bases it leaves: the record of b is deleted and
\* every child of b gets b's base.
ForgetBranch(records, b) ==
    [x \in DOMAIN records \ {b} |->
       IF records[x] = b THEN records[b] ELSE records[x]]

\* The records of a function of the store other than the one of b.
Forget(f, b) == [x \in DOMAIN f \ {b} |-> f[x]]

\* Mutant: the branch argument is ignored, the current branch is untracked.
untrackBranchCurrent(wtOk) == branchOrCurrent(NoBranch, wtOk)

\* The branch branchUntrackCmd.Run forgets: cmd.Branch, or the current
\* branch when no branch is named.
untrackBranch(wtOk) == branchOrCurrent(cmd.Branch, wtOk)

\* The error branchUntrackCmd.Run makes of ForgetBranch's.
untrackError(e) ==
    IF e = "" THEN ""
    ELSE IF e = "ErrNotExist" THEN "branch not tracked"
    ELSE "forget branch"

\* branchUntrackCmd.Run.
branchUntrackRun ==
    /\ pc = "Run"
    /\ cmd.name = "branch untrack"
    /\ \E wtOk, storeOk \in BOOLEAN :
         LET resolved == untrackBranch(wtOk)
             b        == resolved.branch
             e        == ForgetBranchErr(b, storeOk)
         IN  IF resolved.err # ""
             THEN /\ Done(resolved.err)
                  /\ UNCHANGED <<storeVars, baseHash, events>>
             ELSE /\ events' = Append(events, Event("ForgetBranch", b))
                  /\ Done(untrackError(e))
                  /\ IF e # ""
                     THEN UNCHANGED <<storeVars, baseHash>>
                     ELSE /\ base' = ForgetBranch(base, b)
                          /\ change' = Forget(change, b)
                          /\ baseHash' = Forget(baseHash, b)
    /\ UNCHANGED <<mergeVars, forgeVars, idx, calls, cmd, current, before,
                   head, rebasing, restackVars, pr, batchBranches, pushed>>

\* A repository with n tracked branches in any graph, some of them with a
\* change request, and one more branch, n + 1, that is not tracked.
InitStore(n) ==
    /\ \E f \in Forests(n), st \in [1..n -> {"None", "Open"}] :
         InitRepo(f, st, {})
    /\ head = [x \in 0..(n + 1) |-> x + 1]
    /\ baseHash = [b \in 1..n |-> head[base[b]]]
    /\ rebasing = NoRebase
    /\ InitCommand
    /\ InitRestack
    /\ InitForge
    /\ pushed = {}

\* `gs branch untrack [branch]`, on any branch.
InitUntrack ==
    /\ \E n \in 1..MaxBranches :
         /\ InitStore(n)
         /\ \E b \in {NoBranch} \cup 0..(n + 1) :
              cmd = [name |-> "branch untrack", Branch |-> b]
         /\ current \in IF cmd.Branch = NoBranch THEN 0..(n + 1) ELSE {Trunk, n}
    /\ entry = "branch untrack"
    /\ before = Snapshot

SpecUntrack == InitUntrack /\ [][branchUntrackRun]_vars

\* The branch the command was to untrack.
Untracked == IF cmd.Branch # NoBranch THEN cmd.Branch ELSE before.current

\* C19: after untrack(b) of a tracked branch b there is no record of b, no
\* record has b as its base, every former child of b has b's former base as
\* its base and every other branch has the base it had; the change bindings
\* of the branches left are untouched. A branch that is not tracked is
\* refused and the store is left alone.
C19_Untrack ==
    (entry = "branch untrack" /\ pc = "done") =>
      LET b == Untracked
      IN  /\ err = "" =>
                /\ b \in DOMAIN before.base
                /\ DOMAIN base = DOMAIN before.base \ {b}
                /\ DOMAIN change = DOMAIN base
                /\ \A x \in DOMAIN base :
                     /\ base[x] # b
                     /\ before.base[x] = b => base[x] = before.base[b]
                     /\ before.base[x] # b => base[x] = before.base[x]
                     /\ change[x] = before.change[x]
                     /\ Ancestor(base, x, MaxBranches) = Trunk
          /\ err # "" => base = before.base /\ change = before.change
          /\ err = "branch not tracked" => b \notin DOMAIN before.base
          /\ (b \in DOMAIN before.base /\ base = before.base) =>
               err \in {"forget branch", "get current branch"}

\* Branch 2, between branch 1 and branch 3, was untracked from another
\* branch: 3 is on 1 now and 1 is where it was.
C19_Witness ==
    /\ entry = "branch untrack" /\ Succeeded
    /\ cmd.Branch = 2 /\ current # 2
    /\ before.base = <<0, 1, 2>>
    /\ base = (1 :> 0) @@ (3 :> 1)
    /\ change[3] = before.change[3] /\ change[3] # NoChange

(***************************************************************************)
(* branchRenameCmd (`gs branch rename [old] [new]`)                        *)
(***************************************************************************)
\* Mutant: the arguments are taken as they stand.
renameNamesAsGiven(OldName, NewName) == [old |-> OldName, new |-> NewName]

\* The names branchRenameCmd.Run starts from: with one argument alone, that
\* argument is the new name.
renameNames(OldName, NewName) ==
    IF OldName # NoBranch /\ NewName = NoBranch
    THEN [old |-> NoBranch, new |-> OldName]
    ELSE [old |-> OldName, new |-> NewName]

\* Service.RenameBranch, its error: the old branch must have a record and
\* the new name must be free; storeOk is whether the store could be written.
RenameBranchErr(old, new, storeOk) ==
    IF old \notin DOMAIN base THEN "ErrNotExist"
    ELSE IF new \in DOMAIN head THEN "exists"
    ELSE IF ~storeOk THEN "store"
    ELSE ""

\* The key a record is found under before the rename.
Former(x, old, new) == IF x = new THEN old ELSE x

\* A function of the store or of the repository, re-keyed from old to new.
Rekey(f, old, new) ==
    [x \in (DOMAIN f \ {old}) \cup {new} |-> f[Former(x, old, new)]]

\* Service.RenameBranch, the bases it leaves: the record of old is keyed by
\* new and every child of old has new as its base.
RenameBranch(records, old, new) ==
    [x \in (DOMAIN records \ {old}) \cup {new} |->
       IF records[Former(x, old, new)] = old THEN new
       ELSE records[Former(x, old, new)]]

\* The least name no branch of the repository has.
FreeName ==
    CHOOSE x \in 0..Cardinality(DOMAIN head) :
      /\ x \notin DOMAIN head
      /\ \A y \in 0..(x - 1) : y \in DOMAIN head

\* What the user may type at the prompt: the name of a branch there is, or
\* a name no branch has; the prompt takes no blank name.
Answers == DOMAIN head \cup {FreeName}

\* oldName as branchRenameCmd.Run has it once it has read its arguments and
\* the current branch: the rest of Run works with this value.
oldName ==
    LET read == SelectSeq(events, LAMBDA ev : ev.op = "oldName")
    IN  read[Len(read)].arg

\* newName as Run hands it to RenameBranch: the argument, or what the prompt
\* wrote into it.
newName ==
    LET names == renameNames(cmd.OldName, cmd.NewName)
        asked == SelectSeq(events, LAMBDA ev : ev.op = "Prompt")
    IN  IF names.new # NoBranch THEN names.new ELSE asked[Len(asked)].arg

\* branchRenameCmd.Run, up to the prompt: the names are sorted out and the
\* current branch is read when no old name was given.
branchRenameRun ==
    /\ pc = "Run"
    /\ cmd.name = "branch rename"
    /\ LET names == renameNames(cmd.OldName, cmd.NewName) IN
       \E wtOk \in BOOLEAN :
         LET resolved == branchOrCurrent(names.old, wtOk) IN
           IF resolved.err # ""
           THEN /\ Done(resolved.err)
                /\ UNCHANGED events
           ELSE /\ events' = Append(events, Event("oldName", resolved.branch))
                /\ pc' = IF names.new = NoBranch THEN "prompt"
                         ELSE "RenameBranch"
                /\ UNCHANGED err
    /\ UNCHANGED <<mergeVars, storeVars, forgeVars, idx, calls, cmd, current,
                   before, vcsVars, restackVars, pr, batchBranches, pushed>>

\* branchRenameCmd.Run, the prompt for the new name: ui.Run returns once
\* the user has answered, or fails.
branchRenamePrompt ==
    /\ pc = "prompt"
    /\ cmd.name = "branch rename"
    /\ \E promptOk \in BOOLEAN, answer \in Answers :
         IF ~promptOk
         THEN /\ Done("prompt")
              /\ events' = Append(events, Event("Prompt", NoBranch))
         ELSE /\ events' = Append(events, Event("Prompt", answer))
              /\ pc' = "RenameBranch"
              /\ UNCHANGED err
    /\ UNCHANGED <<mergeVars, storeVars, forgeVars, idx, calls, cmd, current,
                   before, vcsVars, restackVars, pr, batchBranches, pushed>>

\* branchRenameCmd.Run, the call of Service.RenameBranch with the names Run
\* holds, on the repository as it is by now.
branchRenameService ==
    /\ pc = "RenameBranch"
    /\ cmd.name = "branch rename"
    /\ \E storeOk \in BOOLEAN :
         LET old == oldName
             new == newName
             e   == RenameBranchErr(old, new, storeOk)
         IN  /\ events' = Append(events,
                            Event("RenameBranch", [old |-> old, new |-> new]))
             /\ IF e # ""
                THEN /\ Done("rename branch")
                     /\ UNCHANGED <<storeVars, head, baseHash, current>>
                ELSE /\ Done("")
                     /\ base' = RenameBranch(base, old, new)
                     /\ change' = Rekey(change, old, new)
                     /\ baseHash' = Rekey(baseHash, old, new)
                     /\ head' = Rekey(head, old, new)
                     /\ current' = IF current = old THEN new ELSE current
    /\ UNCHANGED <<mergeVars, forgeVars, idx, calls, cmd, before, rebasing,
                   restackVars, pr, batchBranches, pushed>>

\* While the prompt of `gs branch rename` is open, or between Run's read of
\* the current branch and its call of RenameBranch, the user works in
\* another terminal: `git checkout` of another branch, or
\* `gs branch untrack` of a tracked branch.
OtherTerminal ==
    /\ pc \in {"prompt", "RenameBranch"}
    /\ cmd.name = "branch rename"
    /\ foreign < MaxForeign
    /\ foreign' = foreign + 1
    /\ \/ /\ current' \in DOMAIN head \ {current}
          /\ UNCHANGED <<storeVars, baseHash>>
       \/ /\ \E b \in DOMAIN base :
               /\ base' = ForgetBranch(base, b)
               /\ change' = Forget(change, b)
               /\ baseHash' = Forget(baseHash, b)
          /\ UNCHANGED current
    /\ UNCHANGED <<inputVars, plan, trunk, awaitVars, cancelled, graphBuilt,
                   mergeInvoked, prompted, trunkReads, verdict, forgeVars,
                   idx, calls, cmd, before, head, rebasing, restackVars, pr,
                   batchBranches, pushed, pc, err, events>>

NextRename ==
    \/ branchRenameRun
    \/ branchRenamePrompt
    \/ branchRenameService
    \/ OtherTerminal

\* `gs branch rename`, `gs branch rename <new>` and
\* `gs branch rename <old> <new>`; branch n + 2 does not exist.
InitRename ==
    /\ \E n \in 1..MaxBranches :
         /\ InitStore(n)
         /\ \E o \in {NoBranch} \cup 0..(n + 2),
               m \in {NoBranch} \cup 0..(n + 2) :
              /\ o = NoBranch => m = NoBranch
              /\ cmd = [name |-> "branch rename", OldName |-> o, NewName |-> m]
         /\ current \in IF cmd.NewName = NoBranch THEN 0..(n + 1) ELSE {Trunk, n}
    /\ entry = "branch rename"
    /\ before = Snapshot

SpecRename == InitRename /\ [][NextRename]_vars

\* The names the command line stands for: `rename <old> <new>`,
\* `rename <new>` on the current branch, `rename` with the name asked for.
Renamed ==
    IF cmd.NewName # NoBranch THEN [old |-> cmd.OldName, new |-> cmd.NewName]
    ELSE IF cmd.OldName # NoBranch
    THEN [old |-> before.current, new |-> cmd.OldName]
    ELSE [old |-> before.current,
          new |-> IF \E k \in DOMAIN events : events[k].op = "Prompt"
                  THEN events[CHOOSE k \in DOMAIN events :
                                events[k].op = "Prompt"].arg
                  ELSE NoBranch]

\* C20: the names RenameBranch is called with are the ones the command
\* line stands for, the old one as it was read when the command started;
\* after rename(old, new) succeeds there is one record at new and none at
\* old, the record at new has old's base and change binding, every former
\* child of old has new as its base, and no other record changed; a rename
\* that fails, and the steps of the command before the rename, leave the
\* store as it was.
C20_Rename ==
    [][/\ (entry = "branch rename" /\ pc = "RenameBranch" /\ pc' = "done") =>
          LET old == oldName
              new == newName
          IN  /\ old = Renamed.old
              /\ new = Renamed.new
              /\ events' = Append(events,
                             Event("RenameBranch", [old |-> old, new |-> new]))
              /\ err' = "" =>
                    /\ old \in DOMAIN base
                    /\ new \notin DOMAIN base
                    /\ old \notin DOMAIN base' /\ old \notin DOMAIN change'
                    /\ new \in DOMAIN base'
                    /\ DOMAIN base' = (DOMAIN base \ {old}) \cup {new}
                    /\ DOMAIN change' = DOMAIN base'
                    /\ Cardinality(DOMAIN base') = Cardinality(DOMAIN base)
                    /\ base'[new] = base[old]
                    /\ change'[new] = change[old]
                    /\ \A x \in DOMAIN base' \ {new} :
                         /\ base[x] = old => base'[x] = new
                         /\ base[x] # old => base'[x] = base[x]
                         /\ change'[x] = change[x]
                    /\ \A x \in DOMAIN base' : base'[x] # old
              /\ err' # "" => base' = base /\ change' = change
       /\ (entry = "branch rename" /\ pc \in {"Run", "prompt"} /\ pc' # pc) =>
            base' = base /\ change' = change
      ]_vars

\* main <- 1 <- 2 <- 3 and `rename` on branch 1: while the prompt is open
\* the user checks out 2 in another terminal, then answers 5: 1 is renamed,
\* 5 is on main, 2 is on 5, 3 is on 2, the change request of 1 is the one
\* of 5, and 2 is still checked out.
C20_Witness ==
    /\ entry = "branch rename" /\ Succeeded
    /\ before.base = <<0, 1, 2>>
    /\ cmd.OldName = NoBranch /\ before.current = 1
    /\ foreign = 1 /\ current = 2
    /\ Logged("Prompt", 5)
    /\ base = (5 :> 0) @@ (2 :> 5) @@ (3 :> 2)
    /\ change = (5 :> before.change[1]) @@ (2 :> before.change[2])
                  @@ (3 :> before.change[3])
    /\ change[5] # NoChange

(***************************************************************************)
(* Further properties of `branch merge`.                                   *)
(***************************************************************************)
\* The positions of the answered ChangesStates calls of one reader.
QueriesBy(who) ==
    {q \in DOMAIN calls :
       calls[q].op = "ChangesStates" /\ calls[q].by = who /\ calls[q].ok}

\* The call a step adds to the log, when it adds one.
Added == calls'[Len(calls')]

\* C22: ChangesStates([x1..xn]) answers with n states, the i-th the state the
\* forge reports for xi when it is asked; so the planner reads one state per
\* downstack item, awaitMerged reads the one state of the one change it asks
\* about, and the validator reads one state per candidate.
C22_StatesPerID ==
    [][(Len(calls') = Len(calls) + 1 /\ Added.op = "ChangesStates"
          /\ Added.ok) =>
         /\ Len(Added.arg) = Len(Added.ids)
         /\ \A k \in DOMAIN Added.ids :
              /\ k \in DOMAIN Added.arg
              /\ Added.arg[k] = Reported(Added.ids[k])
              /\ Added.arg[k] \in ChangeStates
         /\ Added.by = "filterMerged" =>
              /\ Len(Added.ids) = Len(Downstack(target))
              /\ Len(plan') <= Len(Added.arg)
         /\ Added.by = "awaitMerged" =>
              /\ Added.ids = <<plan[idx].changeID>>
              /\ lastPoll' = Added.arg[1]
         /\ Added.by = "ValidateDownstack" =>
              Len(Added.arg) = Len(collectStaleCandidates(target))
      ]_vars

\* All three readers asked: the validator about two bases, the planner about
\* three changes, awaitMerged about one; the planner's answer differs from
\* position to position.
C22_Witness ==
    /\ \E q \in QueriesBy("ValidateDownstack") : Len(calls[q].arg) = 2
    /\ \E q \in QueriesBy("filterMerged") :
         /\ Len(calls[q].arg) = 3
         /\ calls[q].arg[1] = "Merged"
         /\ calls[q].arg[2] = "Open"
    /\ QueriesBy("awaitMerged") # {}

\* The calls made from executePlan on: by its loop, awaitMerged and
\* retargetChange.
ExecuteCalls ==
    SelectSeq(calls, LAMBDA c :
                c.by \in {"executePlan", "awaitMerged", "retargetChange"})

\* C25: with noWait=false nothing follows the MergeChange of the last plan
\* item: when it succeeds executePlan returns nil, when it fails executePlan
\* returns the error, and no poll and no EditChange comes after it; with a
\* plan of one item that MergeChange is the only forge call executePlan
\* makes.
C25_LastItemOnlyMerged ==
    (~noWait /\ mergeInvoked /\ plan # <<>>) =>
      /\ \A k \in DOMAIN calls :
           (calls[k].op = "MergeChange"
              /\ calls[k].ids = <<plan[Len(plan)].changeID>>) =>
             /\ k = Len(calls)
             /\ pc = "done"
             /\ err = "" <=> calls[k].ok
             /\ idx = Len(plan)
      /\ Len(plan) = 1 =>
           /\ Len(ExecuteCalls) <= 1
           /\ \A k \in DOMAIN ExecuteCalls :
                /\ ExecuteCalls[k].op = "MergeChange"
                /\ ExecuteCalls[k].ids = <<plan[1].changeID>>
           /\ (pc = "done" /\ prompted /\ err \notin {"merge aborted", "run prompt"})
                => Len(ExecuteCalls) = 1

\* Three changes merged with waiting: the log ends with the third merge.
C25_Witness ==
    /\ ~noWait /\ Succeeded /\ Len(plan) = 3
    /\ calls[Len(calls)] = MergeOf(plan[3])
    /\ calls[Len(calls) - 1] = RetargetOf(plan[3])

\* The downstack branches of the target that have no change request.
Unpublished == {b \in Walk(target) : change[b] = NoChange}

\* C26: when a branch of the downstack has no published change request,
\* MergeDownstack returns an error before it contacts the forge: it sends no
\* ChangesStates query, shows no prompt and merges nothing, whatever the
\* state of the changes below that branch.
C26_UnpublishedFailsFirst ==
    (mergeInvoked /\ pc # "MergeDownstack" /\ Unpublished # {}) =>
      /\ pc = "done"
      /\ err \in {"no published change request", "lookup branch",
                  "list downstack"}
      /\ plan = <<>>
      /\ ~prompted
      /\ \A k \in DOMAIN calls : calls[k].by = "ValidateDownstack"

\* The top branch of three has no change request; the two below it have
\* open ones.
C26_Witness ==
    /\ mergeInvoked /\ pc = "done"
    /\ err = "no published change request"
    /\ Cardinality(Walk(target)) = 3
    /\ Unpublished = {target}
    /\ \A b \in Below(target) : forge[change[b]] = "Open"

\* What the user answered at the confirmation prompt ("error": the prompt
\* failed), or "" while nothing was asked.
Answer ==
    LET asked == {k \in DOMAIN events : events[k].op = "Confirm"}
    IN  IF asked = {} THEN "" ELSE events[CHOOSE k \in asked : TRUE].arg

\* C27: MergeDownstack asks for confirmation, once, before the first
\* MergeChange of a plan that is not empty, and asks nothing when the plan is
\* empty; when the user answers no or the prompt fails it returns an error
\* and no MergeChange and no EditChange is issued.
C27_ConfirmBeforeMerge ==
    /\ (\E k \in DOMAIN calls : MergeOrEdit(calls[k])) =>
         (prompted /\ Answer = "yes")
    /\ prompted <=> Answer # ""
    /\ prompted => (mergeInvoked /\ plan # <<>>)
    /\ Cardinality({k \in DOMAIN events : events[k].op = "Confirm"}) <= 1
    /\ (mergeInvoked /\ plan # <<>> /\ pc \notin {"MergeDownstack", "confirm"})
         => prompted
    /\ Answer \in {"no", "error"} =>
         /\ pc = "done"
         /\ err = (IF Answer = "no" THEN "merge aborted" ELSE "run prompt")
         /\ \A k \in DOMAIN calls : ~MergeOrEdit(calls[k])

\* The user said no to a plan of three open changes.
C27_Witness ==
    /\ Answer = "no" /\ pc = "done" /\ err = "merge aborted"
    /\ Len(plan) = 3

\* Some MergeChange, poll or EditChange of executePlan failed.
FailedCalls ==
    {k \in DOMAIN calls :
       /\ calls[k].by \in {"executePlan", "awaitMerged", "retargetChange"}
       /\ ~calls[k].ok}

\* C28: the merge batch never retries and stops at the first failure:
\* MergeChange and EditChange are called at most once for a plan item each,
\* and a MergeChange, a poll or an EditChange that fails, or an await that
\* times out, is the last thing executePlan does: it returns that error and
\* no call for a later item follows. Only the poll of awaitMerged repeats.
C28_NoRetryStopAtFirst ==
    /\ \A k, l \in DOMAIN calls :
         (k < l /\ MergeOrEdit(calls[k]) /\ calls[k].op = calls[l].op)
           => calls[k].ids # calls[l].ids
    /\ \A k \in DOMAIN calls :
         MergeOrEdit(calls[k]) =>
           \E j \in DOMAIN plan : calls[k].ids = <<plan[j].changeID>>
    /\ \A k \in FailedCalls :
         /\ k = Len(calls)
         /\ pc = "done"
         /\ err = (IF calls[k].op = "MergeChange" THEN "merge"
                   ELSE IF calls[k].op = "EditChange" THEN "retarget"
                   ELSE "poll state")
    /\ err = "timed out waiting" =>
         /\ pc = "done"
         /\ calls[Len(calls)].by = "awaitMerged"
         /\ calls[Len(calls)].ids = <<plan[idx].changeID>>
    /\ (pc = "done" /\ mergeInvoked /\ prompted /\ Answer = "yes"
          /\ err # "") =>
         /\ \A j \in (idx + 1)..Len(plan), k \in DOMAIN calls :
              calls[k].op = "MergeChange" => calls[k].ids # <<plan[j].changeID>>
         /\ \A j \in (idx + 2)..Len(plan), k \in DOMAIN calls :
              calls[k].ids # <<plan[j].changeID>>

\* The first of three merges went through and its merge was polled more
\* than once; the retarget of the second change failed, and nothing was done
\* for the second and third after that.
C28_Witness ==
    /\ pc = "done" /\ err = "retarget" /\ ~noWait
    /\ Len(plan) = 3 /\ idx = 1
    /\ Len(waits) >= 2
    /\ forge[plan[1].changeID] = "Merged"
    /\ forge[plan[2].changeID] = "Open" /\ forge[plan[3].changeID] = "Open"

\* C29: awaitMerged honours cancellation. Once the caller's context is
\* cancelled while awaitMerged waits between two polls, its next step is to
\* return an error: the backoff delay is not waited out and no poll is made;
\* MergeDownstack returns that error, and neither the EditChange of the
\* successor nor another MergeChange follows.
C29_CancelStopsAwait ==
    /\ [][(pc = "select" /\ cancelled) =>
            /\ pc' \in {"select", "done"}
            /\ calls' = calls
            /\ elapsed' = elapsed
            /\ waits' = waits
            /\ pc' = "done" => err' = "timed out waiting"]_vars
    /\ [](err = "timed out waiting" =>
            /\ pc = "done"
            /\ calls[Len(calls)].by = "awaitMerged"
            /\ calls[Len(calls)].ids = <<plan[idx].changeID>>
            /\ (elapsed < Timeout) => cancelled
            /\ entry = "Run" =>
                 /\ idx < Len(plan)
                 /\ \A k \in DOMAIN calls, j \in (idx + 1)..Len(plan) :
                      calls[k].ids # <<plan[j].changeID>>)

\* The merge of the first of two changes was awaited, the context was
\* cancelled in the second wait, and the command returned before that wait
\* was over: the second change was neither retargeted nor merged.
C29_Witness ==
    /\ entry = "Run" /\ pc = "done" /\ err = "timed out waiting"
    /\ cancelled
    /\ Len(plan) = 2 /\ idx = 1
    /\ Len(waits) = 2 /\ elapsed = InitialDelay
    /\ forge[plan[2].changeID] = "Open"
    /\ forgeBase[plan[2].changeID] # Trunk

\* The change IDs of the published bases, other than trunk, of the branches
\* the walk from the target visits.
PublishedBases ==
    {change[base[x]] : x \in {y \in Walk(target) :
                                /\ base[y] # Trunk
                                /\ base[y] \in DOMAIN base
                                /\ change[base[y]] # NoChange}}

\* C30: ValidateDownstack makes at most one forge call, a ChangesStates
\* query holding, once each, the change IDs of the published non-trunk bases
\* found on the walk; when there is none (a branch on trunk, bases without a
\* change request) it makes no forge call and returns nil.
C30_OneBatchedQuery ==
    (entry = "ValidateDownstack" /\ pc = "done") =>
      /\ Len(calls) <= 1
      /\ \A k \in DOMAIN calls :
           /\ calls[k].op = "ChangesStates"
           /\ calls[k].by = "ValidateDownstack"
           /\ {calls[k].ids[m] : m \in DOMAIN calls[k].ids} = PublishedBases
           /\ Len(calls[k].ids) = Cardinality(PublishedBases)
      /\ PublishedBases = {} <=> calls = <<>>
      /\ PublishedBases = {} => (verdict = Nil /\ err = "")

\* A stack of three whose bottom branch has a change request and whose
\* middle branch has none: the one query asks about the bottom change only.
C30_Witness ==
    /\ entry = "ValidateDownstack" /\ pc = "done"
    /\ Cardinality(Walk(target)) = 3
    /\ Len(calls) = 1
    /\ Len(calls[1].ids) = 1
    /\ change[base[target]] = NoChange
    /\ change[target] # NoChange

(***************************************************************************)
(* bitbucket.Forge.LoadAuthenticationToken                                 *)
(*                                                                         *)
(* Strings are sequences of tokens here: "" is <<>>.                       *)
(***************************************************************************)
AuthenticationToken(type, token, email) ==
    [AuthType |-> type, AccessToken |-> token, Email |-> email]

\* The nil token returned along with an error.
NilToken == AuthenticationToken(-1, <<>>, <<>>)

\* loadStoredToken: stash.LoadSecret, then json.Unmarshal.
loadStoredToken(stashed) ==
    IF ~stashed.found THEN [err |-> "load secret", token |-> NilToken]
    ELSE IF ~stashed.json THEN [err |-> "unmarshal", token |-> NilToken]
    ELSE [err |-> "", token |-> stashed.token]

\* strings.Cut(line, "="): where the first "=" is, 0 if there is none.
CutAt(line) ==
    LET at == {k \in DOMAIN line : line[k] = "="}
    IN  IF at = {} THEN 0 ELSE CHOOSE k \in at : \A j \in at : k <= j

\* The scan of parseCredentialOutput: a later line overrides an earlier one.
RECURSIVE ScanCredentials(_, _, _)
ScanCredentials(lines, username, password) ==
    IF lines = <<>> THEN [username |-> username, password |-> password]
    ELSE LET line  == Head(lines)
             i     == CutAt(line)
             key   == SubSeq(line, 1, i - 1)
             value == SubSeq(line, i + 1, Len(line))
         IN  IF i = 0 THEN ScanCredentials(Tail(lines), username, password)
             ELSE IF key = <<"username">>
             THEN ScanCredentials(Tail(lines), value, password)
             ELSE IF key = <<"password">>
             THEN ScanCredentials(Tail(lines), username, value)
             ELSE ScanCredentials(Tail(lines), username, password)

\* parseCredentialOutput(output)
parseCredentialOutput(output, scanOk) ==
    LET found == ScanCredentials(output, <<>>, <<>>)
    IN  IF ~scanOk
        THEN [err |-> "parse credential output", token |-> NilToken]
        ELSE IF found.password = <<>>
        THEN [err |-> "no password in credential output", token |-> NilToken]
        ELSE [err |-> "",
              token |-> AuthenticationToken(AuthTypeGCM, found.password,
                                            found.username)]

\* loadGCMCredentials: `git credential fill`, then parseCredentialOutput.
loadGCMCredentials(gcm) ==
    IF ~gcm.execOk THEN [err |-> "git credential fill", token |-> NilToken]
    ELSE parseCredentialOutput(gcm.output, gcm.scanOk)

\* Mutant: the stash is asked before the environment token is looked at.
LoadAuthenticationTokenStashFirst(Token, stashed, gcm) ==
    LET stored == loadStoredToken(stashed)
        filled == loadGCMCredentials(gcm)
    IN  IF stored.err = ""
        THEN [err |-> "", token |-> stored.token, consulted |-> <<"stash">>]
        ELSE IF Token # <<>>
        THEN [err |-> "",
              token |-> AuthenticationToken(AuthTypeEnvironmentVariable,
                                            Token, <<>>),
              consulted |-> <<"stash">>]
        ELSE IF filled.err = ""
        THEN [err |-> "", token |-> filled.token,
              consulted |-> <<"stash", "gcm">>]
        ELSE [err |-> "no authentication token available",
              token |-> NilToken, consulted |-> <<"stash", "gcm">>]

\* Forge.LoadAuthenticationToken(stash): the token or the error, and the
\* sources it asked, in order.
LoadAuthenticationToken(Token, stashed, gcm) ==
    LET stored == loadStoredToken(stashed)
        filled == loadGCMCredentials(gcm)
    IN  IF Token # <<>>
        THEN [err |-> "",
              token |-> AuthenticationToken(AuthTypeEnvironmentVariable,
                                            Token, <<>>),
              consulted |-> <<>>]
        ELSE IF stored.err = ""
        THEN [err |-> "", token |-> stored.token, consulted |-> <<"stash">>]
        ELSE IF filled.err = ""
        THEN [err |-> "", token |-> filled.token,
              consulted |-> <<"stash", "gcm">>]
        ELSE [err |-> "no authentication token available",
              token |-> NilToken, consulted |-> <<"stash", "gcm">>]

\* A call of LoadAuthenticationToken.
loadAuthenticationTokenRun ==
    /\ pc = "Run"
    /\ cmd.name = "LoadAuthenticationToken"
    /\ LET r == LoadAuthenticationToken(cmd.Token, cmd.stashed, cmd.gcm)
       IN  /\ events' = [k \in 1..Len(r.consulted) |->
                           Event("Consult", r.consulted[k])]
                        \o <<Event("Return", r.token)>>
           /\ Done(r.err)
    /\ UNCHANGED <<mergeVars, storeVars, forgeVars, idx, calls, cmd, current,
                   before, vcsVars, restackVars, pr, batchBranches, pushed>>

\* The lines `git credential fill` may print.
Lines ==
    {<<"username", "=", "u">>, <<"password", "=", "p">>,
     <<"password", "=", "p", "=", "q">>, <<"password", "=">>,
     <<"password">>, <<"host", "=", "h">>}

Outputs == UNION {[1..n -> Lines] : n \in 0..MaxLines}

\* What the secret stash holds under "token": nothing, something that is
\* not JSON, or a token saved earlier.
Stashes ==
    {[found |-> FALSE, json |-> FALSE, token |-> NilToken],
     [found |-> TRUE, json |-> FALSE, token |-> NilToken],
     [found |-> TRUE, json |-> TRUE,
      token |-> AuthenticationToken(AuthTypeAppPassword, <<"s">>, <<"e">>)],
     [found |-> TRUE, json |-> TRUE,
      token |-> AuthenticationToken(AuthTypeAppPassword, <<>>, <<>>)]}

\* What the credential manager does: the command fails, or prints lines.
Fills ==
    {[execOk |-> FALSE, output |-> <<>>, scanOk |-> TRUE]}
      \cup {[execOk |-> TRUE, output |-> o, scanOk |-> ok] :
              o \in Outputs, ok \in BOOLEAN}

\* A repository without tracked branches.
InitNoRepo ==
    /\ InitRepo(<<>>, <<>>, {})
    /\ head = [x \in {Trunk} |-> 1]
    /\ baseHash = <<>>
    /\ rebasing = NoRebase
    /\ current = Trunk
    /\ InitCommand
    /\ InitRestack
    /\ InitForge
    /\ pushed = {}

\* LoadAuthenticationToken with BITBUCKET_TOKEN set or not, any stash and
\* any credential manager.
InitAuth ==
    /\ InitNoRepo
    /\ \E t \in {<<>>, <<"t">>}, stashed \in Stashes, gcm \in Fills :
         cmd = [name |-> "LoadAuthenticationToken", Token |-> t,
                stashed |-> stashed, gcm |-> gcm]
    /\ entry = "LoadAuthenticationToken"
    /\ before = Snapshot

SpecAuth == InitAuth /\ [][loadAuthenticationTokenRun]_vars

\* The sources asked, in order, and the token returned.
Consulted ==
    LET asked == SelectSeq(events, LAMBDA ev : ev.op = "Consult")
    IN  [k \in DOMAIN asked |-> asked[k].arg]

Returned == events[Len(events)].arg

StashYields == cmd.stashed.found /\ cmd.stashed.json

FillYields ==
    /\ cmd.gcm.execOk /\ cmd.gcm.scanOk
    /\ \E k \in DOMAIN cmd.gcm.output :
         /\ Len(cmd.gcm.output[k]) > 2
         /\ SubSeq(cmd.gcm.output[k], 1, 2) = <<"password", "=">>
         /\ \A j \in (k + 1)..Len(cmd.gcm.output) :
              (Len(cmd.gcm.output[j]) < 2
                 \/ SubSeq(cmd.gcm.output[j], 1, 2) # <<"password", "=">>)

\* C23: LoadAuthenticationToken asks the environment token, the secret
\* stash and the credential manager in that order and returns the first
\* token it gets: with the environment token set nothing else is asked, with
\* a stashed token that can be read the credential manager is not run, and
\* an error is returned only when all three yield nothing.
C23_CredentialOrder ==
    (entry = "LoadAuthenticationToken" /\ pc = "done") =>
      /\ cmd.Token # <<>> =>
           /\ Consulted = <<>>
           /\ err = ""
           /\ Returned = AuthenticationToken(AuthTypeEnvironmentVariable,
                                             cmd.Token, <<>>)
      /\ (cmd.Token = <<>> /\ StashYields) =>
           /\ Consulted = <<"stash">>
           /\ err = ""
           /\ Returned = cmd.stashed.token
      /\ (cmd.Token = <<>> /\ ~StashYields) =>
           /\ Consulted = <<"stash", "gcm">>
           /\ FillYields =>
                /\ err = ""
                /\ Returned.AuthType = AuthTypeGCM
                /\ Returned.AccessToken # <<>>
      /\ err # "" <=> (cmd.Token = <<>> /\ ~StashYields /\ ~FillYields)
      /\ err # "" => Returned = NilToken

\* No environment token, nothing readable in the stash: the credential
\* manager's password, the last one it printed, is the token.
C23_Witness ==
    /\ entry = "LoadAuthenticationToken" /\ Succeeded
    /\ cmd.Token = <<>> /\ cmd.stashed.found /\ ~cmd.stashed.json
    /\ Consulted = <<"stash", "gcm">>
    /\ Len(cmd.gcm.output) = 2
    /\ Returned = AuthenticationToken(AuthTypeGCM, <<"p", "=", "q">>, <<"u">>)

(***************************************************************************)
(* bitbucket.Repository.SubmitChange                                       *)
(*                                                                         *)
(* An error is the chain of its messages, outermost first; a response body *)
(* is a sequence of words.                                                 *)
(***************************************************************************)
\* SubmitChangeResult{}: no change ID.
NoID == 0

\* strings.Contains(body, phrase)
Contains(body, phrase) ==
    \E k \in 0..(Len(body) - Len(phrase)) :
      SubSeq(body, k + 1, k + Len(phrase)) = phrase

\* Mutant: the status code of the response is not looked at.
isDestinationBranchNotFoundAnyStatus(e) ==
    /\ e.kind = "apiError"
    /\ Contains(e.Body, <<"destination">>)
    /\ Contains(e.Body, <<"branch", "not", "found">>)

\* isDestinationBranchNotFound(err)
isDestinationBranchNotFound(e) ==
    /\ e.kind = "apiError"
    /\ e.StatusCode = StatusBadRequest
    /\ Contains(e.Body, <<"destination">>)
    /\ Contains(e.Body, <<"branch", "not", "found">>)

\* createPullRequest: the pull request the API answered with, or the error.
createPullRequest(response) ==
    IF response.kind = "created"
    THEN [err |-> <<>>, ID |-> response.ID]
    ELSE IF isDestinationBranchNotFound(response)
    THEN [err |-> <<"create pull request", "ErrUnsubmittedBase">>,
          ID |-> NoID]
    ELSE [err |-> <<"create pull request", response.kind>>, ID |-> NoID]

\* Repository.SubmitChange(ctx, req)
SubmitChange(reviewersOk, response) ==
    IF ~reviewersOk
    THEN [err |-> <<"resolve reviewers", "lookup user">>, ID |-> NoID]
    ELSE createPullRequest(response)

\* errors.Is(err, target)
Is(chain, sentinel) == \E k \in DOMAIN chain : chain[k] = sentinel

\* A call of SubmitChange.
submitChangeRun ==
    /\ pc = "Run"
    /\ cmd.name = "SubmitChange"
    /\ LET r == SubmitChange(cmd.reviewersOk, cmd.response)
       IN  /\ events' = <<Event("Return", r)>>
           /\ Done(IF r.err = <<>> THEN "" ELSE Head(r.err))
    /\ UNCHANGED <<mergeVars, storeVars, forgeVars, idx, calls, cmd, current,
                   before, vcsVars, restackVars, pr, batchBranches, pushed>>

Words == {"destination", "source", "branch", "not", "found"}

Bodies == UNION {[1..n -> Words] : n \in 0..MaxWords}

\* What the POST may come back with: the pull request, an API error with a
\* status and a body, or an error that is no API error.
Responses ==
    {[kind |-> "created", ID |-> 7], [kind |-> "transport"]}
      \cup {[kind |-> "apiError", StatusCode |-> code, Body |-> body] :
              code \in {StatusBadRequest, 404, 500}, body \in Bodies}

\* SubmitChange with reviewers that resolve or not and any answer of the API.
InitSubmitChange ==
    /\ InitNoRepo
    /\ \E ok \in BOOLEAN, response \in Responses :
         cmd = [name |-> "SubmitChange", reviewersOk |-> ok,
                response |-> response]
    /\ entry = "SubmitChange"
    /\ before = Snapshot

SpecSubmitChange == InitSubmitChange /\ [][submitChangeRun]_vars

\* The response says that the destination branch was not found.
DestinationUnknown ==
    /\ cmd.response.kind = "apiError"
    /\ cmd.response.StatusCode = 400
    /\ \E k \in DOMAIN cmd.response.Body :
         cmd.response.Body[k] = "destination"
    /\ \E k \in DOMAIN cmd.response.Body :
         /\ k + 2 <= Len(cmd.response.Body)
         /\ cmd.response.Body[k] = "branch"
         /\ cmd.response.Body[k + 1] = "not"
         /\ cmd.response.Body[k + 2] = "found"

\* C24: SubmitChange returns an error that is ErrUnsubmittedBase exactly
\* when the API answered the creation with status 400 and a body that
\* mentions "destination" and "branch not found"; every other failure gives
\* a different, wrapped error; with either error no change ID is returned,
\* and without error the ID is the one the API gave.
C24_UnsubmittedBase ==
    (entry = "SubmitChange" /\ pc = "done") =>
      LET r == Returned
      IN  /\ Is(r.err, "ErrUnsubmittedBase") <=>
                (cmd.reviewersOk /\ DestinationUnknown)
          /\ r.err = <<>> <=> (cmd.reviewersOk /\ cmd.response.kind = "created")
          /\ r.err # <<>> =>
                /\ r.ID = NoID
                /\ Len(r.err) >= 2
                /\ err # ""
          /\ (r.err # <<>> /\ ~Is(r.err, "ErrUnsubmittedBase")) =>
                r.err # <<"create pull request", "ErrUnsubmittedBase">>
          /\ r.err = <<>> => (r.ID = cmd.response.ID /\ r.ID # NoID /\ err = "")

\* The API answered 400 "destination branch not found".
C24_Witness ==
    /\ entry = "SubmitChange" /\ pc = "done"
    /\ cmd.response.kind = "apiError"
    /\ cmd.response.Body = <<"destination", "branch", "not", "found">>
    /\ Returned = [err |-> <<"create pull request", "ErrUnsubmittedBase">>,
                   ID |-> NoID]

(***************************************************************************)
(* branchTrackCmd (`gs branch track [branch] [--base BRANCH]`)             *)
(***************************************************************************)
\* The bases track infers from: trunk and the other tracked branches.
TrackCandidates(b) == {Trunk} \cup (DOMAIN base \ {b})

\* TrackHandler.TrackBranch, its error: trunk is never tracked and a
\* tracked branch is rejected. For a base that was named and is no
\* candidate the handler's answer is not known: `accepted` is whether it
\* takes the base as given. storeOk is whether the store could be written.
TrackBranchErr(b, bs, accepted, storeOk) ==
    IF b = Trunk THEN "cannot track trunk"
    ELSE IF b \notin DOMAIN head THEN "branch does not exist"
    ELSE IF b \in DOMAIN base THEN "already tracked"
    ELSE IF bs \notin TrackCandidates(b) /\ ~accepted THEN "base not tracked"
    ELSE IF ~storeOk THEN "store"
    ELSE ""

\* A function of the store with a record for b added.
WithRecord(f, b, v) == [x \in DOMAIN f \cup {b} |-> IF x = b THEN v ELSE f[x]]

\* branchTrackCmd.AfterApply: without a branch argument cmd.Branch becomes
\* the current branch.
branchTrackAfterApply ==
    /\ pc = "Run"
    /\ cmd.name = "branch track"
    /\ IF cmd.Branch # NoBranch
       THEN pc' = "TrackBranch" /\ UNCHANGED <<cmd, err>>
       ELSE \E wtOk \in BOOLEAN :
              IF wtOk
              THEN /\ cmd' = [cmd EXCEPT !.Branch = current]
                   /\ pc' = "TrackBranch"
                   /\ UNCHANGED err
              ELSE Done("get current branch") /\ UNCHANGED cmd
    /\ UNCHANGED <<mergeVars, storeVars, forgeVars, idx, calls, current,
                   before, vcsVars, restackVars, events, pr, batchBranches,
                   pushed>>

\* Mutant: --base is not handed on, the base is always inferred.
trackRequestNoBase == [Branch |-> cmd.Branch, Base |-> NoBranch]

\* The track.BranchRequest branchTrackCmd.Run hands to the handler.
trackRequest == [Branch |-> cmd.Branch, Base |-> cmd.Base]

\* branchTrackCmd.Run: handler.TrackBranch(request). The base is the one
\* named or, inferred from the commits, any of the candidates; the branch
\* may or may not sit on the head of its base.
branchTrackRun ==
    /\ pc = "TrackBranch"
    /\ cmd.name = "branch track"
    /\ LET req == trackRequest
           b   == req.Branch
       IN  \E storeOk, onHead, accepted \in BOOLEAN,
              bs \in IF req.Base = NoBranch THEN TrackCandidates(b)
                     ELSE {req.Base} :
             LET e == TrackBranchErr(b, bs, accepted, storeOk)
             IN  /\ events' = Append(events,
                        Event("TrackBranch", [branch |-> b, base |-> bs]))
                 /\ Done(e)
                 /\ IF e # ""
                    THEN UNCHANGED <<storeVars, baseHash>>
                    ELSE /\ base' = WithRecord(base, b, bs)
                         /\ change' = WithRecord(change, b, NoChange)
                         /\ baseHash' = WithRecord(baseHash, b,
                                IF onHead /\ bs \in DOMAIN head
                                THEN head[bs] ELSE 0)
    /\ UNCHANGED <<mergeVars, forgeVars, idx, calls, cmd, current, before,
                   head, rebasing, restackVars, pr, batchBranches, pushed>>

(***************************************************************************)
(* bottomCmd and trunkCmd (`gs bottom`, `gs trunk`)                        *)
(***************************************************************************)
\* Service.FindBottom(start): the bottom-most branch of start's stack, the
\* one based on trunk; NoBranch when start has no record.
FindBottom(start) ==
    IF Downstack(start) = <<>> THEN NoBranch
    ELSE Downstack(start)[Len(Downstack(start))]

\* checkoutHandler.CheckoutBranch for the options of the command: the branch
\* is checked out, or with -n (DryRun) only printed; checkoutOk is whether
\* the handler succeeded.
CheckoutBranch(branch, checkoutOk) ==
    /\ events' = Append(events, Event("CheckoutBranch", branch))
    /\ IF ~checkoutOk
       THEN /\ Done("checkout branch")
            /\ UNCHANGED current
       ELSE /\ Done("")
            /\ current' = IF cmd.DryRun THEN current ELSE branch

\* bottomCmd.Run.
bottomRun ==
    /\ pc = "Run"
    /\ cmd.name = "bottom"
    /\ \E wtOk, lookupOk, checkoutOk \in BOOLEAN :
         IF ~wtOk
         THEN Done("get current branch") /\ UNCHANGED <<current, events>>
         ELSE IF current = Trunk
         THEN /\ Done("no branches below current: already on trunk")
              /\ UNCHANGED <<current, events>>
         ELSE IF ~lookupOk \/ FindBottom(current) = NoBranch
         THEN Done("find bottom") /\ UNCHANGED <<current, events>>
         ELSE CheckoutBranch(FindBottom(current), checkoutOk)
    /\ UNCHANGED <<mergeVars, storeVars, forgeVars, idx, calls, cmd, before,
                   vcsVars, restackVars, pr, batchBranches, pushed>>

\* trunkCmd.Run.
trunkRun ==
    /\ pc = "Run"
    /\ cmd.name = "trunk"
    /\ \E checkoutOk \in BOOLEAN : CheckoutBranch(Trunk, checkoutOk)
    /\ UNCHANGED <<mergeVars, storeVars, forgeVars, idx, calls, cmd, before,
                   vcsVars, restackVars, pr, batchBranches, pushed>>

(***************************************************************************)
(* The stored branch graph over the commands that touch it.                *)
(***************************************************************************)
\* The commands that write branch records.
StoreCommands == {"branch track", "branch untrack", "branch rename"}

\* What may be named on a command line: no branch, a branch of the
\* repository, or a name no branch has.
Names == {NoBranch} \cup DOMAIN head \cup {FreeName}

\* The command lines of the commands that write branch records.
StoreCommandLines ==
    {[name |-> "branch track", Branch |-> b, Base |-> bs] :
        b \in Names, bs \in Names}
      \cup {[name |-> "branch untrack", Branch |-> b] : b \in Names}
      \cup {c \in [name : {"branch rename"}, OldName : Names,
                    NewName : Names] :
              c.OldName = NoBranch => c.NewName = NoBranch}

\* The command lines of the restack commands, for a tracked branch, trunk or
\* the current branch.
RestackCommandLines ==
    {[name |-> "repo restack"]}
      \cup [name : {"upstack restack"},
            Branch : {NoBranch, Trunk} \cup DOMAIN base, SkipStart : BOOLEAN]

\* The command lines of the commands that check a branch out.
CheckoutCommandLines == [name : {"bottom", "trunk"}, DryRun : BOOLEAN]

CommandLines ==
    StoreCommandLines \cup RestackCommandLines \cup CheckoutCommandLines
      \cup {[name |-> "branch merge"]}

\* The entry point of a command.
EntryOf(name) ==
    IF name = "branch merge" THEN "Run"
    ELSE IF name \in StoreCommands \cup {"bottom", "trunk"} THEN name
    ELSE "restack"

\* The first command line of a session.
InitCommandLine ==
    /\ cmd \in CommandLines
    /\ entry = EntryOf(cmd.name)
    /\ IF cmd.name = "branch merge"
       THEN /\ target \in {Trunk} \cup DOMAIN base
            /\ noWait \in BOOLEAN
            /\ noBranchCheck \in BOOLEAN
       ELSE /\ target = Trunk
            /\ noWait = FALSE
            /\ noBranchCheck = FALSE
    /\ current \in IF cmd.name = "bottom" THEN DOMAIN head ELSE {target}
    /\ stash \in IF cmd.name = "repo restack" THEN {"none", "dirty"}
                 ELSE {"none"}

\* The store can be loaded: every base is trunk or has a record, and every
\* branch reaches trunk. A command that finds another store aborts when it
\* loads the graph.
LoadsCleanly ==
    /\ Trunk \notin DOMAIN base
    /\ \A b \in DOMAIN base : base[b] \in {Trunk} \cup DOMAIN base
    /\ \A b \in DOMAIN base :
         Ancestor(base, b, Cardinality(DOMAIN base)) = Trunk

\* The user runs another command once one has ended and no restack is left
\* to be continued: the state of the run before is gone, the store, the
\* forge and the commits are as that run left them.
NewCommand ==
    /\ pc = "done"
    /\ LoadsCleanly
    /\ rebasing = NoRebase
    /\ continuation = NoContinuation
    /\ session < MaxCommands
    /\ session' = session + 1
    /\ cmd' \in CommandLines
    /\ entry' = EntryOf(cmd'.name)
    /\ (cmd'.name = "upstack restack" /\ cmd'.Branch = NoBranch) =>
          current \in {Trunk} \cup DOMAIN base
    /\ IF cmd'.name = "branch merge"
       THEN /\ target' \in {Trunk} \cup DOMAIN base
            /\ current' = target'
            /\ noWait' \in BOOLEAN
            /\ noBranchCheck' \in BOOLEAN
       ELSE /\ target' = Trunk
            /\ noWait' = FALSE
            /\ noBranchCheck' = FALSE
            /\ UNCHANGED current
    /\ stash' \in IF cmd'.name = "repo restack" THEN {"none", "dirty"}
                  ELSE {"none"}
    /\ before' = [Snapshot EXCEPT !.current = current', !.stash = stash']
    /\ pc' = "Run"
    /\ err' = ""
    /\ plan' = <<>>
    /\ idx' = 0
    /\ foreign' = 0
    /\ trunk' = NoTrunk
    /\ delay' = 0
    /\ elapsed' = 0
    /\ waits' = <<>>
    /\ lastPoll' = ""
    /\ cancelled' = FALSE
    /\ calls' = <<>>
    /\ graphBuilt' = FALSE
    /\ mergeInvoked' = FALSE
    /\ prompted' = FALSE
    /\ trunkReads' = 0
    /\ verdict' = Nil
    /\ remaining' = <<>>
    /\ count' = 0
    /\ events' = <<>>
    /\ UNCHANGED <<storeVars, forgeVars, vcsVars, continuation, pr,
                   batchBranches, pushed>>

\* The tracked branches a session starts with, at most: the more commands
\* the session runs, the smaller the stack it starts from.
SessionTracked == MaxBranches + 1 - MaxCommands

\* A repository with a stack of up to SessionTracked branches, each with an
\* open change request, and one more branch that is not tracked; the first
\* command of the session is about to run.
InitSession ==
    /\ \E n \in 0..SessionTracked :
         /\ \E f \in Stacks(n) : InitRepo(f, [b \in 1..n |-> "Open"], {})
         /\ head = [x \in 0..(n + 1) |-> x + 1]
    /\ baseHash = [b \in DOMAIN base |-> head[base[b]]]
    /\ rebasing = NoRebase
    /\ InitCommandLine
    /\ pc = "Run"
    /\ err = ""
    /\ plan = <<>>
    /\ idx = 0
    /\ foreign = 0
    /\ trunk = NoTrunk
    /\ delay = 0
    /\ elapsed = 0
    /\ waits = <<>>
    /\ lastPoll = ""
    /\ cancelled = FALSE
    /\ calls = <<>>
    /\ graphBuilt = FALSE
    /\ mergeInvoked = FALSE
    /\ prompted = FALSE
    /\ trunkReads = 0
    /\ verdict = Nil
    /\ remaining = <<>>
    /\ continuation = NoContinuation
    /\ count = 0
    /\ events = <<>>
    /\ InitForge
    /\ pushed = {}
    /\ session = 1
    /\ before = Snapshot

NextGraph ==
    \/ branchTrackAfterApply
    \/ branchTrackRun
    \/ branchUntrackRun
    \/ NextRename
    \/ bottomRun
    \/ trunkRun
    \/ NextRestack
    \/ Next
    \/ NewCommand

SpecGraph == InitSession /\ [][NextGraph]_vars

\* The stored graph is a forest rooted at trunk: trunk has no record, every
\* record has its one base, which is trunk or a branch with a record, and
\* following base from any branch reaches trunk.
Forest ==
    /\ Trunk \notin DOMAIN base
    /\ DOMAIN change = DOMAIN base
    /\ \A b \in DOMAIN base : base[b] \in {Trunk} \cup DOMAIN base
    /\ \A b \in DOMAIN base :
         Ancestor(base, b, Cardinality(DOMAIN base)) = Trunk

\* The branch a `branch track` has just tracked is on the base it was
\* tracked on, the one named if one was named, and no other record changed.
TrackPost ==
    (entry = "branch track" /\ Succeeded) =>
      LET tracked == events[Len(events)].arg
      IN  /\ tracked.branch \notin DOMAIN before.base
          /\ DOMAIN base = DOMAIN before.base \cup {tracked.branch}
          /\ base[tracked.branch] = tracked.base
          /\ cmd.Base # NoBranch => tracked.base = cmd.Base
          /\ \A b \in DOMAIN before.base : base[b] = before.base[b]

OffCandidates ==
    /\ cmd.name = "branch track"
    /\ cmd.Base # NoBranch
    /\ cmd.Base \notin TrackCandidates(cmd.Branch)

ChangeFound == err \notin {"construct change ID", "find change"}

\* C31: with --trunk T the comments of the change request are not listed,
\* and once the change request is found the command exits 0 iff its base is
\* T, whether --all is given or not and whether there is a navigation
\* comment or not.
C31_TrunkOverride ==
    (entry = "ci merge-guard" /\ pc = "done" /\ cmd.Trunk # NoTrunk) =>
      /\ ~\E k \in DOMAIN events :
            events[k].op \in {"ListChangeComments", "Warn"}
      /\ err # "could not determine trunk"
      /\ ChangeFound => (err = "" <=> FoundChange.BaseName = cmd.Trunk)
      /\ (ChangeFound /\ err # "") => err = "base is not trunk"

\* --all, no navigation comment, and the base is the trunk --trunk names,
\* which is not the repository's: the change request passes.
C31_Witness ==
    /\ entry = "ci merge-guard" /\ Succeeded
    /\ cmd.Trunk = 1 /\ cmd.All
    /\ ~pr.managed /\ FoundChange.BaseName = 1

\* The listing of the change request's comments failed.
ListingFailed ==
    \E k \in DOMAIN events : events[k] = Event("Warn", "Error listing comments")

\* C34: when the listing of the comments fails (no --trunk), the warning is
\* logged and the change request is taken as unmanaged: the command exits 0
\* without --all and fails with --all, whatever the base is and whether
\* there is a navigation comment or not.
C34_ListingFails ==
    (entry = "ci merge-guard" /\ pc = "done" /\ ListingFailed) =>
      /\ cmd.Trunk = NoTrunk
      /\ err = "" <=> ~cmd.All
      /\ cmd.All => err = "unmanaged PR blocked by --all"
      /\ ~cmd.All =>
           events[Len(events)]
             = Event("Info", "not managed by git-spice, allowing")

\* A change request with a navigation comment that names the trunk, and a
\* base that is not the trunk: the listing fails, and without --all the
\* change request passes.
C34_Witness ==
    /\ entry = "ci merge-guard" /\ Succeeded
    /\ ListingFailed
    /\ ~cmd.All
    /\ pr.managed /\ pr.navTrunk = Trunk /\ FoundChange.BaseName = 1

(***************************************************************************)
(* Further properties of merge.Handler.MergeDownstack.                     *)
(***************************************************************************)
\* The positions in the call log of the calls of op on the plan's item j.
CallsOn(op, j) ==
    {k \in DOMAIN calls : /\ calls[k].op = op
                          /\ calls[k].ids = <<plan[j].changeID>>}

\* C33: with noWait=false every plan item but the first is retargeted to
\* trunk once and no more, after a poll reported its predecessor Merged and
\* before its own MergeChange, and it is not merged without that; the first
\* plan item is never retargeted: the base of its change request on the
\* forge stays what it was, also when branches below it were skipped as
\* merged.
C33_RetargetOnce ==
    (entry = "Run" /\ ~noWait /\ plan # <<>>) =>
      /\ \A j \in 2..Len(plan) :
           /\ Cardinality(CallsOn("EditChange", j)) <= 1
           /\ \A k \in CallsOn("EditChange", j) :
                /\ calls[k].arg = <<Trunk>>
                /\ \E m \in 1..(k - 1) : calls[m] = MergedPollOf(plan[j - 1])
                /\ \A m \in CallsOn("MergeChange", j) : k < m
           /\ CallsOn("MergeChange", j) # {} =>
                \E k \in CallsOn("EditChange", j) : calls[k].ok
           /\ Succeeded => Cardinality(CallsOn("EditChange", j)) = 1
      /\ \A k \in DOMAIN calls :
           calls[k].op = "EditChange" =>
             \E j \in 2..Len(plan) : k \in CallsOn("EditChange", j)
      /\ CallsOn("EditChange", 1) = {}
      /\ forgeBase[plan[1].changeID] = base[plan[1].branch]

\* The bottom branch of a stack of three was merged before: the plan starts
\* at the second branch, which is merged into the first, and the third is
\* retargeted to trunk.
C33_Witness ==
    /\ entry = "Run" /\ Succeeded /\ ~noWait
    /\ Len(plan) = 2
    /\ plan[1].branch = 2
    /\ forgeBase[plan[1].changeID] = 1
    /\ forgeBase[plan[2].changeID] = Trunk
    /\ CallsOn("MergeChange", 1) # {}

\* C35: MergeDownstack writes nothing to the state store and changes
\* nothing in the repository: from its call on, on success and on every
\* failure, the base, the base hash and the change request of every tracked
\* branch, the branch heads and the checked-out branch are what they were
\* when the command started, no rebase is under way and nothing is stashed.
C35_LocalStateUntouched ==
    (entry = "Run" /\ mergeInvoked) =>
      /\ Snapshot = before
      /\ rebasing = NoRebase
      /\ continuation = NoContinuation
      /\ \A k \in DOMAIN events : events[k].op = "Confirm"

\* The bottom change was merged and the next one retargeted on the forge,
\* then a merge failed: the forge has changed, the store has not.
C35_Witness ==
    /\ entry = "Run" /\ pc = "done" /\ err = "merge"
    /\ Len(plan) >= 2
    /\ \E k \in DOMAIN calls : calls[k] = RetargetOf(plan[2])
    /\ forgeBase[plan[2].changeID] = Trunk
    /\ base[plan[2].branch] # Trunk
    /\ forge[plan[1].changeID] = "Merged"

\* The plan query found every change of the downstack Merged.
AllReportedMerged ==
    \E q \in PlanQueries :
      \A k \in DOMAIN calls[q].arg : calls[q].arg[k] = "Merged"

\* C36: when the plan query reports every change of the downstack Merged,
\* the plan is empty and MergeDownstack returns nil at once: the user is not
\* asked, no MergeChange and no EditChange is issued, trunk is not read, and
\* the changes are still Merged with the bases they had.
C36_AllMergedNoOp ==
    (entry = "Run" /\ AllReportedMerged) =>
      /\ Succeeded
      /\ plan = <<>>
      /\ ~prompted
      /\ \A k \in DOMAIN events : events[k].op # "Confirm"
      /\ \A k \in DOMAIN calls : ~MergeOrEdit(calls[k])
      /\ trunkReads = 0
      /\ \A q \in PlanQueries :
           /\ calls[q].ids = ItemIDs(resolveChanges(
                                       Reverse(ListDownstack(target)), 0).items)
           /\ \A k \in DOMAIN calls[q].ids :
                /\ forge[calls[q].ids[k]] = "Merged"
                /\ forgeBase[calls[q].ids[k]] = base[calls[q].ids[k]]

\* A stack of three, all merged, with --no-branch-check.
C36_Witness ==
    /\ entry = "Run" /\ Succeeded /\ mergeInvoked
    /\ AllReportedMerged
    /\ target = 3
    /\ \E q \in PlanQueries : Len(calls[q].ids) = 3

(***************************************************************************)
(* Further properties of `repo restack`.                                   *)
(***************************************************************************)
\* `gs repo restack` alone, with its continuations.
InitRepoRestack == InitRestackCommands /\ cmd.name = "repo restack"

NextRepoRestack ==
    \/ repoRestackRun
    \/ repoRestackAfter
    \/ Restack
    \/ RestackNext
    \/ RebaseEnds
    \/ UserResolves
    \/ Reinvoke

SpecRepoRestack == InitRepoRestack /\ [][NextRepoRestack]_vars

\* C38: when `repo restack` succeeds with a count of one or more, the branch
\* checked out is the one that was checked out when the command started:
\* checking it out is the last thing the command does to the worktree,
\* whichever branches were checked out for their rebase before.
C38_BackOnStartBranch ==
    (RestackSucceeded /\ cmd.name = "repo restack" /\ count >= 1) =>
      /\ current = before.current
      /\ Len(ThisRun) >= 2
      /\ ThisRun[Len(ThisRun) - 1] = Event("Checkout", before.current)
      /\ ThisRun[Len(ThisRun)] = Event("Info", "Restacked branches")

\* Started on trunk, `repo restack` checked out and rebased two branches or
\* more, the second branch among them, and is back on trunk.
C38_Witness ==
    /\ RestackSucceeded /\ cmd.name = "repo restack" /\ ~Resumed
    /\ count >= 2
    /\ before.current = Trunk
    /\ Logged("Checkout", 2)
    /\ Logged("Rebase", 2)
    /\ current = Trunk

(***************************************************************************)
(* bitbucket.Repository.ListChangeComments                                 *)
(*                                                                         *)
(* A comment body is the set of the patterns that occur in it; a regular   *)
(* expression is the pattern it looks for.  The path of a page is its      *)
(* number, and "" is 0.                                                    *)
(***************************************************************************)
\* opts == nil
NilOpts == [BodyMatchesAll |-> <<"nil">>]

\* submit.NavCommentRegexes
NavCommentRegexes == <<"header", "marker">>

\* re.MatchString(body)
MatchString(re, body) == re \in body

\* Mutant: one expression that matches is enough.
matchesBodyFilterAny(body, opts) ==
    \/ opts = NilOpts
    \/ \E k \in DOMAIN opts.BodyMatchesAll :
         MatchString(opts.BodyMatchesAll[k], body)

\* matchesBodyFilter(body, opts)
matchesBodyFilter(body, opts) ==
    \/ opts = NilOpts
    \/ \A k \in DOMAIN opts.BodyMatchesAll :
         MatchString(opts.BodyMatchesAll[k], body)

\* &PRComment{ID: id, PRID: prID}
PRComment(id, prID) == [ID |-> id, PRID |-> prID]

\* convertComment(c): the PRComment is made with its ID alone, its PRID is
\* the zero value.
convertComment(c) == [ID |-> PRComment(c.ID, 0), Body |-> c.Body]

\* The comments of page k as the API returns them: IDs in page order.
PageValues(k) ==
    [j \in DOMAIN cmd.pages[k] |-> [ID |-> 10 * k + j, Body |-> cmd.pages[k][j]]]

\* resp.Next of page k: the path of the next page, "" on the last one.
PageNext(k) == IF k < Len(cmd.pages) THEN k + 1 ELSE 0

\* The consumer ranges over the sequence ListChangeComments returned:
\* iterateComments builds the path of the first page.
iterateComments ==
    /\ pc = "Run"
    /\ cmd.name = "ListChangeComments"
    /\ idx' = 1
    /\ pc' = "fetchAndYieldComments"
    /\ UNCHANGED <<mergeVars, storeVars, forgeVars, calls, err, cmd, current,
                   before, vcsVars, restackVars, events, pr, batchBranches,
                   pushed>>

\* fetchAndYieldComments, the head of its loop: with a path left, the page
\* is fetched; a failed fetch is yielded as the one error item.
fetchAndYieldComments ==
    /\ pc = "fetchAndYieldComments"
    /\ IF idx = 0
       THEN /\ Done("")
            /\ UNCHANGED <<events, remaining>>
       ELSE IF idx = cmd.failAt
       THEN /\ events' = events \o
                   <<Event("GET", [page |-> idx, ok |-> FALSE]),
                     Event("Yield", [item |-> "nil", err |-> "list comments"])>>
            /\ Done("")
            /\ UNCHANGED remaining
       ELSE /\ events' = Append(events, Event("GET", [page |-> idx, ok |-> TRUE]))
            /\ remaining' = PageValues(idx)
            /\ pc' = "yieldFilteredComments"
            /\ UNCHANGED err
    /\ UNCHANGED <<mergeVars, storeVars, forgeVars, idx, calls, cmd, current,
                   before, vcsVars, continuation, count, stash, pr,
                   batchBranches, pushed>>

\* What the consumer may answer an item with: trunkFromNavComment returns
\* at the first item, another consumer goes on or breaks.
ConsumerGoesOn ==
    IF cmd.consumer = "trunkFromNavComment" THEN {FALSE} ELSE BOOLEAN

\* yieldFilteredComments, for the next comment of the page: a comment the
\* filter turns down is passed over, any other is yielded; when the consumer
\* breaks the sequence ends, and after the last comment the next page's path
\* is taken.
yieldFilteredComments ==
    /\ pc = "yieldFilteredComments"
    /\ IF remaining = <<>>
       THEN /\ idx' = PageNext(idx)
            /\ pc' = "fetchAndYieldComments"
            /\ UNCHANGED <<err, events, remaining>>
       ELSE LET c == Head(remaining)
            IN  IF ~matchesBodyFilter(c.Body, cmd.opts)
                THEN /\ remaining' = Tail(remaining)
                     /\ UNCHANGED <<pc, err, idx, events>>
                ELSE \E more \in ConsumerGoesOn :
                       /\ events' = events \o
                            <<Event("Yield",
                                    [item |-> convertComment(c), err |-> ""])>>
                              \o IF more THEN <<>>
                                 ELSE <<Event("Break", c.ID)>>
                       /\ remaining' = Tail(remaining)
                       /\ IF more THEN UNCHANGED <<pc, err>> ELSE Done("")
                       /\ UNCHANGED idx
    /\ UNCHANGED <<mergeVars, storeVars, forgeVars, calls, cmd, current,
                   before, vcsVars, continuation, count, stash, pr,
                   batchBranches, pushed>>

RECURSIVE PageSeqs(_)
\* The sequences of up to n comment bodies.
PageSeqs(n) ==
    IF n = 0 THEN {<<>>}
    ELSE PageSeqs(n - 1) \cup [1..n -> {{"header"}, {"header", "marker"}}]

\* ListChangeComments on a pull request whose comments come in one page or
\* more, with any filter, any consumer, and a fetch that fails or none.
InitComments ==
    /\ InitNoRepo
    /\ \E n \in 1..MaxPages :
         \E pages \in [1..n -> PageSeqs(MaxPageSize)], failAt \in 0..n,
            opts \in {NilOpts, [BodyMatchesAll |-> <<"header">>],
                      [BodyMatchesAll |-> NavCommentRegexes]},
            consumer \in {"range", "trunkFromNavComment"} :
           /\ consumer = "trunkFromNavComment" =>
                opts = [BodyMatchesAll |-> NavCommentRegexes]
           /\ cmd = [name |-> "ListChangeComments", PR |-> 42, pages |-> pages,
                     failAt |-> failAt, opts |-> opts, consumer |-> consumer]
    /\ entry = "ListChangeComments"
    /\ before = Snapshot

NextComments ==
    \/ iterateComments
    \/ fetchAndYieldComments
    \/ yieldFilteredComments

SpecComments == InitComments /\ [][NextComments]_vars

\* The pages fetched, failed fetches included, in order.
Fetched ==
    LET gets == SelectSeq(events, LAMBDA ev : ev.op = "GET")
    IN  [k \in DOMAIN gets |-> gets[k].arg.page]

\* The items yielded, in order.
Yielded ==
    LET yields == SelectSeq(events, LAMBDA ev : ev.op = "Yield")
    IN  [k \in DOMAIN yields |-> yields[k].arg]

RECURSIVE Matching(_)
\* The comments of the pages from k on that the filter lets through, in
\* page order.
Matching(k) ==
    IF k > Len(cmd.pages) THEN <<>>
    ELSE SelectSeq(PageValues(k),
                   LAMBDA c : \A i \in DOMAIN cmd.opts.BodyMatchesAll :
                                cmd.opts = NilOpts
                                  \/ cmd.opts.BodyMatchesAll[i] \in c.Body)
           \o Matching(k + 1)

\* The comments of the pages up to k that the filter lets through.
MatchingUpTo(k) ==
    SubSeq(Matching(1), 1, Len(Matching(1)) - Len(Matching(k + 1)))

\* C32: the comments are fetched page by page as the consumer goes on: the
\* pages fetched are 1, 2, ... in order, each once; page k + 1 is fetched
\* only after every comment of the pages up to k that passes the filter was
\* yielded and taken; after the consumer breaks, nothing is fetched or
\* yielded; a failed fetch is followed by the one error item and nothing
\* else; and the comments yielded are, in page order, those whose body
\* matches every expression of BodyMatchesAll.
C32_LazyComments ==
    entry = "ListChangeComments" =>
      /\ \A k \in DOMAIN Fetched : Fetched[k] = k
      /\ \A p \in DOMAIN events :
           /\ events[p].op = "GET" =>
                LET earlier == SubSeq(events, 1, p - 1)
                    items == SelectSeq(earlier, LAMBDA ev : ev.op = "Yield")
                IN  /\ \A q \in 1..(p - 1) : events[q].op # "Break"
                    /\ [i \in DOMAIN items |-> items[i].arg.item.ID.ID]
                         = [i \in DOMAIN MatchingUpTo(events[p].arg.page - 1)
                              |-> MatchingUpTo(events[p].arg.page - 1)[i].ID]
           /\ events[p].op = "Break" => p = Len(events) /\ pc = "done"
           /\ (events[p].op = "GET" /\ ~events[p].arg.ok) =>
                /\ p + 1 = Len(events)
                /\ events[p + 1] =
                     Event("Yield", [item |-> "nil", err |-> "list comments"])
                /\ pc = "done"
           /\ (events[p].op = "Yield" /\ events[p].arg.err # "") =>
                /\ p = Len(events)
                /\ p > 1 /\ events[p - 1].op = "GET" /\ ~events[p - 1].arg.ok
      /\ LET items == SelectSeq(Yielded, LAMBDA y : y.err = "")
         IN  /\ Len(items) <= Len(Matching(1))
             /\ \A i \in DOMAIN items :
                  /\ items[i].item.ID.ID = Matching(1)[i].ID
                  /\ items[i].item.Body = Matching(1)[i].Body
      /\ (pc = "done" /\ cmd.failAt = 0
            /\ \A p \in DOMAIN events : events[p].op # "Break") =>
           /\ Len(Yielded) = Len(Matching(1))
           /\ Len(Fetched) = Len(cmd.pages)
      /\ err = ""

\* The consumer took the one comment of the first page that passes the
\* filter and broke at the first of the second page: two pages were
\* fetched, and a comment that matches one expression only was passed over.
C32_Witness ==
    /\ entry = "ListChangeComments" /\ pc = "done"
    /\ cmd.opts = [BodyMatchesAll |-> NavCommentRegexes]
    /\ cmd.pages = <<<<{"header"}, {"header", "marker"}>>,
                     <<{"header", "marker"}, {"header", "marker"}>>>>
    /\ Fetched = <<1, 2>>
    /\ Len(Yielded) = 2
    /\ events[Len(events)] = Event("Break", 21)

(***************************************************************************)
(* bitbucket.Repository: PostChangeComment, UpdateChangeComment and        *)
(* DeleteChangeComment, called with the comment IDs the binding handed out *)
(***************************************************************************)
\* The calls of PostChangeComment, UpdateChangeComment and
\* DeleteChangeComment a caller makes in one run.
MaxEdits == 2

\* apiErr.StatusCode
StatusNotFound == 404

\* The calls made so far that post, update or delete a comment.
Edits ==
    SelectSeq(events, LAMBDA ev : ev.op \in {"PostChangeComment",
                                             "UpdateChangeComment",
                                             "DeleteChangeComment"})

\* The comment IDs the binding has handed out: those PostChangeComment
\* returned and those of the items ListChangeComments yielded.
HandedOut ==
    {events[p].arg.item.ID :
       p \in {q \in DOMAIN events : events[q].op = "Yield"
                                      /\ events[q].arg.err = ""}}
      \cup
    {events[p].arg.id :
       p \in {q \in DOMAIN events : events[q].op = "PostChangeComment"
                                      /\ events[q].arg.err = ""}}

\* PostChangeComment(id, body): createComment posts to the pull request's
\* comments; the ID returned is the new comment's, with the number of the
\* pull request.
PostChangeComment ==
    /\ cmd.name = "ListChangeComments"
    /\ Len(Edits) < MaxEdits
    /\ LET prID == cmd.PR
       IN  \E ok \in BOOLEAN :
             events' = events \o
               <<Event("POST", [pr |-> prID, ok |-> ok]),
                 IF ok
                 THEN Event("PostChangeComment",
                            [id |-> PRComment(90 + Len(Edits), prID),
                             err |-> ""])
                 ELSE Event("PostChangeComment",
                            [id |-> "nil", err |-> "create comment"])>>
    /\ UNCHANGED <<mergeVars, storeVars, forgeVars, calls, cmd, current,
                   before, vcsVars, restackVars, pr, batchBranches, pushed,
                   pc, err, idx>>

\* updateComment(prID, commentID, body), with the status code of the error
\* client.put returned, 0 for none: 404 is ErrNotFound.
updateComment(prID, commentID, status) ==
    [log |-> <<Event("PUT", [pr |-> prID, comment |-> commentID,
                             status |-> status])>>,
     err |-> IF status = 0 THEN ""
             ELSE IF status = StatusNotFound THEN "ErrNotFound"
             ELSE "update comment"]

\* UpdateChangeComment(id, body) with an ID the binding handed out: an ID
\* without a pull request's number is ErrCommentCannotUpdate, and nothing
\* is sent.
UpdateChangeComment ==
    /\ cmd.name = "ListChangeComments"
    /\ Len(Edits) < MaxEdits
    /\ \E comment \in HandedOut :
         IF comment.PRID = 0
         THEN events' = Append(events,
                  Event("UpdateChangeComment",
                        [id |-> comment, err |-> "ErrCommentCannotUpdate"]))
         ELSE \E status \in {0, StatusNotFound, StatusBadRequest} :
                LET r == updateComment(comment.PRID, comment.ID, status)
                IN  events' = events \o r.log \o
                      <<Event("UpdateChangeComment",
                              [id |-> comment, err |-> r.err])>>
    /\ UNCHANGED <<mergeVars, storeVars, forgeVars, calls, cmd, current,
                   before, vcsVars, restackVars, pr, batchBranches, pushed,
                   pc, err, idx>>

\* deleteComment(prID, commentID)
deleteComment(prID, commentID, ok) ==
    [log |-> <<Event("DELETE", [pr |-> prID, comment |-> commentID,
                                ok |-> ok])>>,
     err |-> IF ok THEN "" ELSE "delete comment"]

\* DeleteChangeComment(id) with an ID the binding handed out: an ID without
\* a pull request's number is ErrCommentCannotUpdate, and nothing is sent.
DeleteChangeComment ==
    /\ cmd.name = "ListChangeComments"
    /\ Len(Edits) < MaxEdits
    /\ \E comment \in HandedOut :
         IF comment.PRID = 0
         THEN events' = Append(events,
                  Event("DeleteChangeComment",
                        [id |-> comment, err |-> "ErrCommentCannotUpdate"]))
         ELSE \E ok \in BOOLEAN :
                LET r == deleteComment(comment.PRID, comment.ID, ok)
                IN  events' = events \o r.log \o
                      <<Event("DeleteChangeComment",
                              [id |-> comment, err |-> r.err])>>
    /\ UNCHANGED <<mergeVars, storeVars, forgeVars, calls, cmd, current,
                   before, vcsVars, restackVars, pr, batchBranches, pushed,
                   pc, err, idx>>

\* A caller that lists the comments of a pull request with no filter, and
\* posts, updates and deletes comments with the IDs it was given.
InitCommentIDs ==
    /\ InitComments
    /\ cmd.opts = NilOpts
    /\ cmd.consumer = "range"

NextCommentIDs ==
    \/ NextComments
    \/ PostChangeComment
    \/ UpdateChangeComment
    \/ DeleteChangeComment

SpecCommentIDs == InitCommentIDs /\ [][NextCommentIDs]_vars

\* C37: every comment ID handed out, by PostChangeComment or by
\* ListChangeComments, carries the number of the pull request, and an
\* UpdateChangeComment or DeleteChangeComment called with it sends its
\* request to the forge and does not fail with ErrCommentCannotUpdate.
C37_CommentIDs ==
    /\ \A comment \in HandedOut : comment.PRID = cmd.PR
    /\ \A p \in DOMAIN events :
         events[p].op \in {"UpdateChangeComment", "DeleteChangeComment"} =>
           /\ events[p].arg.err # "ErrCommentCannotUpdate"
           /\ p > 1
           /\ events[p - 1].op
                = (IF events[p].op = "UpdateChangeComment" THEN "PUT"
                   ELSE "DELETE")
           /\ events[p - 1].arg.pr = cmd.PR
           /\ events[p - 1].arg.comment = events[p].arg.id.ID

====
